-------------------------------- MODULE Spec2Model --------------------------------
(***************************************************************************)
(* Okta "revoke session" job handler: the three lifecycle entry points     *)
(* invoke / error / halt, the credential resolver (four authentication     *)
(* methods, OAuth2 client-credentials token exchange), the target resolver *)
(* and the single-retry recovery policy.                                   *)
(*                                                                         *)
(* JavaScript strings are sequences of one-character strings, so that      *)
(* startsWith, substring, includes, encodeURIComponent, base64 and         *)
(* parseInt are computed the way the code computes them.  Other JavaScript *)
(* values are tagged records.                                              *)
(***************************************************************************)
EXTENDS Integers, Sequences, FiniteSets, TLC

(* ------------------------- string literals of the code ----------------- *)
BearerPrefix ==
    <<"B","e","a","r","e","r"," ">>
SSWSPrefix ==
    <<"S","S","W","S"," ">>
BasicPrefix ==
    <<"B","a","s","i","c"," ">>
MsgInvalidUserId ==
    <<"I","n","v","a","l","i","d"," ","o","r"," ","m","i","s","s","i","n","g"," ","u","s","e",
    "r","I","d"," ","p","a","r","a","m","e","t","e","r">>
MsgNoUrl ==
    <<"N","o"," ","U","R","L"," ","s","p","e","c","i","f","i","e","d","."," ","P","r","o","v",
    "i","d","e"," ","a","d","d","r","e","s","s"," ","p","a","r","a","m","e","t","e","r"," ","o",
    "r"," ","A","D","D","R","E","S","S"," ","e","n","v","i","r","o","n","m","e","n","t"," ","v",
    "a","r","i","a","b","l","e">>
MsgNoAuth ==
    <<"N","o"," ","a","u","t","h","e","n","t","i","c","a","t","i","o","n"," ","c","o","n","f",
    "i","g","u","r","e","d","."," ","P","r","o","v","i","d","e"," ","o","n","e"," ","o","f",":",
    " ","B","E","A","R","E","R","_","A","U","T","H","_","T","O","K","E","N",","," ","B","A","S",
    "I","C","_","U","S","E","R","N","A","M","E","/","B","A","S","I","C","_","P","A","S","S","W",
    "O","R","D",","," ","O","A","U","T","H","2","_","A","U","T","H","O","R","I","Z","A","T","I",
    "O","N","_","C","O","D","E","_","A","C","C","E","S","S","_","T","O","K","E","N",","," ","o",
    "r"," ","O","A","U","T","H","2","_","C","L","I","E","N","T","_","C","R","E","D","E","N","T",
    "I","A","L","S","_","*">>
MsgOAuthEnv ==
    <<"O","A","u","t","h","2"," ","C","l","i","e","n","t"," ","C","r","e","d","e","n","t","i",
    "a","l","s"," ","f","l","o","w"," ","r","e","q","u","i","r","e","s"," ","T","O","K","E","N",
    "_","U","R","L"," ","a","n","d"," ","C","L","I","E","N","T","_","I","D"," ","i","n"," ","e",
    "n","v">>
MsgOAuthConfig ==
    <<"O","A","u","t","h","2"," ","C","l","i","e","n","t"," ","C","r","e","d","e","n","t","i",
    "a","l","s"," ","f","l","o","w"," ","r","e","q","u","i","r","e","s"," ","t","o","k","e","n",
    "U","r","l",","," ","c","l","i","e","n","t","I","d",","," ","a","n","d"," ","c","l","i","e",
    "n","t","S","e","c","r","e","t">>
MsgTokenFailed ==
    <<"O","A","u","t","h","2"," ","t","o","k","e","n"," ","r","e","q","u","e","s","t"," ","f",
    "a","i","l","e","d",":"," ">>
MsgNoAccessToken ==
    <<"N","o"," ","a","c","c","e","s","s","_","t","o","k","e","n"," ","i","n"," ","O","A","u",
    "t","h","2"," ","r","e","s","p","o","n","s","e">>
MsgFailedHttp ==
    <<"F","a","i","l","e","d"," ","t","o"," ","r","e","v","o","k","e"," ","s","e","s","s","i",
    "o","n","s",":"," ","H","T","T","P"," ">>
MsgFailed ==
    <<"F","a","i","l","e","d"," ","t","o"," ","r","e","v","o","k","e"," ","s","e","s","s","i",
    "o","n","s",":"," ">>
MsgUnrecoverable ==
    <<"U","n","r","e","c","o","v","e","r","a","b","l","e"," ","e","r","r","o","r"," ","r","e",
    "v","o","k","i","n","g"," ","s","e","s","s","i","o","n","s"," ","f","o","r"," ","u","s","e",
    "r"," ">>
PathUsers ==
    <<"/","a","p","i","/","v","1","/","u","s","e","r","s","/">>
PathSessions ==
    <<"/","s","e","s","s","i","o","n","s">>
AppJson ==
    <<"a","p","p","l","i","c","a","t","i","o","n","/","j","s","o","n">>
AppForm ==
    <<"a","p","p","l","i","c","a","t","i","o","n","/","x","-","w","w","w","-","f","o","r","m",
    "-","u","r","l","e","n","c","o","d","e","d">>
B64Alphabet ==
    <<"A","B","C","D","E","F","G","H","I","J","K","L","M","N","O","P","Q","R","S","T","U","V",
    "W","X","Y","Z","a","b","c","d","e","f","g","h","i","j","k","l","m","n","o","p","q","r","s",
    "t","u","v","w","x","y","z","0","1","2","3","4","5","6","7","8","9","+","/">>
Ascii ==
    <<" ","!","<quote>","#","$","%","&","'","(",")","*","+",",","-",".","/","0","1","2","3","4","5",
    "6","7","8","9",":",";","<","=",">","?","@","A","B","C","D","E","F","G","H","I","J","K","L",
    "M","N","O","P","Q","R","S","T","U","V","W","X","Y","Z","[","<backslash>","]","^","_","<backtick>","a","b",
    "c","d","e","f","g","h","i","j","k","l","m","n","o","p","q","r","s","t","u","v","w","x","y",
    "z","{","|","}","~">>
HexDigits ==
    <<"0","1","2","3","4","5","6","7","8","9","A","B","C","D","E","F">>
UnreservedMarks ==
    <<"-","_",".","!","~","*","'","(",")">>
StrUndefined ==
    <<"u","n","d","e","f","i","n","e","d">>
StrUnknown ==
    <<"u","n","k","n","o","w","n">>
StrInParams ==
    <<"I","n","P","a","r","a","m","s">>
StrDELETE ==
    <<"D","E","L","E","T","E">>
StrPOST ==
    <<"P","O","S","T">>
StrRateLimit ==
    <<"r","a","t","e"," ","l","i","m","i","t">>
Str429 ==
    <<"4","2","9">>
FormGrant ==
    <<"g","r","a","n","t","_","t","y","p","e","=","c","l","i","e","n","t","_","c","r","e","d",
    "e","n","t","i","a","l","s">>
FormScope ==
    <<"&","s","c","o","p","e","=">>
FormAudience ==
    <<"&","a","u","d","i","e","n","c","e","=">>
FormClientId ==
    <<"&","c","l","i","e","n","t","_","i","d","=">>
FormClientSecret ==
    <<"&","c","l","i","e","n","t","_","s","e","c","r","e","t","=">>

\* messages of errors raised by the runtime (fetch, Response.json, property access)
\* and further literals of the handlers
MsgFetchFailed ==
    <<"f","e","t","c","h"," ","f","a","i","l","e","d">>
MsgJsonSyntax ==
    <<"U","n","e","x","p","e","c","t","e","d"," ","t","o","k","e","n"," ","<"," ","i","n"," ",
    "J","S","O","N"," ","a","t"," ","p","o","s","i","t","i","o","n"," ","0">>
MsgNullProperty ==
    <<"C","a","n","n","o","t"," ","r","e","a","d"," ","p","r","o","p","e","r","t","i","e","s",
    " ","o","f"," ","n","u","l","l">>
MsgBodyUsed ==
    <<"B","o","d","y"," ","i","s"," ","u","n","u","s","a","b","l","e">>
StrNull ==
    <<"n","u","l","l">>
RateLimitRetry ==
    <<"r","a","t","e","_","l","i","m","i","t","_","r","e","t","r","y">>
ServiceRetry ==
    <<"s","e","r","v","i","c","e","_","r","e","t","r","y">>
DefaultRateLimitBackoff ==
    <<"3","0","0","0","0">>
DefaultServiceErrorBackoff ==
    <<"1","0","0","0","0">>

(* ------------------------- JavaScript values --------------------------- *)
undefined ==
    [t |-> "undefined"]

NaN ==
    [t |-> "NaN"]

Str(s) ==
    [t |-> "string", v |-> s]

Num(n) ==
    [t |-> "number", n |-> n]

\* JavaScript truthiness: undefined, "", 0 and NaN are falsy.
Truthy(x) ==
    CASE x.t = "string" -> x.v # <<>>
      [] x.t = "number" -> x.n # 0
      [] OTHER -> FALSE

\* a || b
OrElse(a, b) ==
    IF Truthy(a) THEN a ELSE b

\* typeof x === 'string'
IsString(x) ==
    x.t = "string"

Digit(d) ==
    HexDigits[d + 1]

RECURSIVE IntToStr(_)
IntToStr(n) ==
    IF n < 10 THEN <<Digit(n)>> ELSE IntToStr(n \div 10) \o <<Digit(n % 10)>>

\* `${x}` : string conversion of a template literal
TemplateStr(x) ==
    CASE x.t = "string" -> x.v
      [] x.t = "number" -> IntToStr(x.n)
      [] x.t = "NaN" -> <<"N","a","N">>
      [] OTHER -> StrUndefined

startsWith(s, p) ==
    Len(s) >= Len(p) /\ SubSeq(s, 1, Len(p)) = p

endsWith(s, p) ==
    Len(s) >= Len(p) /\ SubSeq(s, Len(s) - Len(p) + 1, Len(s)) = p

\* s.substring(n)
substring(s, n) ==
    SubSeq(s, n + 1, Len(s))

\* s.slice(0, -1)
sliceDropLast(s) ==
    SubSeq(s, 1, Len(s) - 1)

includes(s, p) ==
    \/ p = <<>>
    \/ \E i \in 1..(Len(s) - Len(p) + 1) : s[i] = p[1] /\ SubSeq(s, i, i + Len(p) - 1) = p

CharCode(c) ==
    31 + (CHOOSE i \in 1..Len(Ascii) : Ascii[i] = c)

Alnum ==
    {B64Alphabet[i] : i \in 1..62}

Unreserved ==
    Alnum \cup {UnreservedMarks[i] : i \in 1..Len(UnreservedMarks)}

PercentEncode(c) ==
    <<"%", HexDigits[(CharCode(c) \div 16) + 1], HexDigits[(CharCode(c) % 16) + 1]>>

RECURSIVE encodeURIComponentStr(_)
encodeURIComponentStr(s) ==
    IF s = <<>> THEN <<>>
    ELSE (IF Head(s) \in Unreserved THEN <<Head(s)>> ELSE PercentEncode(Head(s)))
         \o encodeURIComponentStr(Tail(s))

\* encodeURIComponent(x) converts its argument to a string first
encodeURIComponent(x) ==
    encodeURIComponentStr(TemplateStr(x))

B64(n) ==
    B64Alphabet[n + 1]

RECURSIVE Base64Bytes(_)
Base64Bytes(b) ==
    IF Len(b) = 0 THEN <<>>
    ELSE IF Len(b) = 1 THEN
        <<B64(b[1] \div 4), B64((b[1] % 4) * 16), "=", "=">>
    ELSE IF Len(b) = 2 THEN
        <<B64(b[1] \div 4), B64((b[1] % 4) * 16 + b[2] \div 16), B64((b[2] % 16) * 4), "=">>
    ELSE
        <<B64(b[1] \div 4), B64((b[1] % 4) * 16 + b[2] \div 16),
          B64((b[2] % 16) * 4 + b[3] \div 64), B64(b[3] % 64)>>
        \o Base64Bytes(SubSeq(b, 4, Len(b)))

\* Buffer.from(s).toString('base64')
toBase64(s) ==
    Base64Bytes([i \in 1..Len(s) |-> CharCode(s[i])])

IsDigit(c) ==
    c \in {HexDigits[i] : i \in 1..10}

DigitVal(c) ==
    (CHOOSE i \in 1..10 : HexDigits[i] = c) - 1

RECURSIVE SkipSpaces(_)
SkipSpaces(s) ==
    IF s # <<>> /\ Head(s) = " " THEN SkipSpaces(Tail(s)) ELSE s

RECURSIVE DigitsValue(_, _)
DigitsValue(s, acc) ==
    IF s # <<>> /\ IsDigit(Head(s)) THEN DigitsValue(Tail(s), acc * 10 + DigitVal(Head(s)))
    ELSE acc

\* parseInt(s, 10): leading blanks, an optional sign, the longest prefix of digits
parseInt(s) ==
    LET t    == SkipSpaces(s)
        neg  == t # <<>> /\ Head(t) = "-"
        u    == IF t # <<>> /\ Head(t) \in {"-", "+"} THEN Tail(t) ELSE t
    IN  IF u = <<>> \/ ~IsDigit(Head(u)) THEN NaN
        ELSE Num((IF neg THEN -1 ELSE 1) * DigitsValue(u, 0))

\* new Date(ms).toISOString(): the instant, as a timestamp value
toISOString(ms) ==
    [t |-> "timestamp", ms |-> ms]

(* ------------------------- errors and completions ---------------------- *)
\* new Error(message): no statusCode property
Error(message) ==
    [message |-> message, statusCode |-> undefined]

\* const error = new Error(message); error.statusCode = statusCode
HttpError(message, statusCode) ==
    [message |-> message, statusCode |-> Num(statusCode)]

Return(v) ==
    [k |-> "return", v |-> v]

Throw(e) ==
    [k |-> "throw", e |-> e]

\* the function is suspended in `await fetch(request)`
Await(request) ==
    [k |-> "await", request |-> request]

(* ------------------------- Target Resolver ----------------------------- *)
\* getBaseUrl with a slip: the environment's ADDRESS is preferred to params.address
getBaseUrlEnvFirst(params, context) ==
    LET env     == context.environment
        address == OrElse(env.ADDRESS, params.address)
    IN  IF ~Truthy(address)
        THEN Throw(Error(MsgNoUrl))
        ELSE Return(IF endsWith(address.v, <<"/">>)
                    THEN sliceDropLast(address.v)
                    ELSE address.v)

\* params.address || context.environment?.ADDRESS, without one trailing slash
getBaseUrl(params, context) ==
    LET env     == context.environment
        address == OrElse(params.address, env.ADDRESS)
    IN  IF ~Truthy(address)
        THEN Throw(Error(MsgNoUrl))
        ELSE Return(IF endsWith(address.v, <<"/">>)
                    THEN sliceDropLast(address.v)
                    ELSE address.v)

(* ------------------------- Credential Resolver ------------------------- *)
\* URLSearchParams serialisation of one value (application/x-www-form-urlencoded)
RECURSIVE FormEncode(_)
FormEncode(s) ==
    IF s = <<>> THEN <<>>
    ELSE (IF Head(s) \in Alnum \cup {"*", "-", ".", "_"} THEN <<Head(s)>>
          ELSE IF Head(s) = " " THEN <<"+">>
          ELSE PercentEncode(Head(s)))
         \o FormEncode(Tail(s))

\* getClientCredentialsToken with a slip: the Basic header is sent with every style
getClientCredentialsTokenBothPlaces(config) ==
    IF ~Truthy(config.tokenUrl) \/ ~Truthy(config.clientId) \/ ~Truthy(config.clientSecret)
    THEN Throw(Error(MsgOAuthConfig))
    ELSE
      LET inParams == config.authStyle = Str(StrInParams)
          body == FormGrant
                  \o (IF Truthy(config.scope)
                      THEN FormScope \o FormEncode(config.scope.v) ELSE <<>>)
                  \o (IF Truthy(config.audience)
                      THEN FormAudience \o FormEncode(config.audience.v) ELSE <<>>)
                  \o (IF inParams
                      THEN FormClientId \o FormEncode(config.clientId.v)
                           \o FormClientSecret \o FormEncode(config.clientSecret.v)
                      ELSE <<>>)
          credentials == toBase64(config.clientId.v \o <<":">> \o config.clientSecret.v)
      IN  Await([method  |-> StrPOST,
                 url     |-> config.tokenUrl.v,
                 headers |-> [Authorization |-> Str(BasicPrefix \o credentials),
                              Accept        |-> Str(AppJson),
                              ContentType   |-> Str(AppForm)],
                 body    |-> Str(body)])

\* getClientCredentialsToken up to its `await fetch(tokenUrl, ...)`
getClientCredentialsToken(config) ==
    IF ~Truthy(config.tokenUrl) \/ ~Truthy(config.clientId) \/ ~Truthy(config.clientSecret)
    THEN Throw(Error(MsgOAuthConfig))
    ELSE
      LET inParams == config.authStyle = Str(StrInParams)
          body == FormGrant
                  \o (IF Truthy(config.scope)
                      THEN FormScope \o FormEncode(config.scope.v) ELSE <<>>)
                  \o (IF Truthy(config.audience)
                      THEN FormAudience \o FormEncode(config.audience.v) ELSE <<>>)
                  \o (IF inParams
                      THEN FormClientId \o FormEncode(config.clientId.v)
                           \o FormClientSecret \o FormEncode(config.clientSecret.v)
                      ELSE <<>>)
          credentials == toBase64(config.clientId.v \o <<":">> \o config.clientSecret.v)
      IN  Await([method  |-> StrPOST,
                 url     |-> config.tokenUrl.v,
                 headers |-> [Authorization |-> IF inParams THEN undefined
                                                ELSE Str(BasicPrefix \o credentials),
                              Accept        |-> Str(AppJson),
                              ContentType   |-> Str(AppForm)],
                 body    |-> Str(body)])

\* Response.ok of fetch: the status is in the range 200-299
Ok(response) ==
    response.status \in 200..299

\* getClientCredentialsTokenResume with a slip: access_token is used unchecked
getClientCredentialsTokenResumeUnchecked(response) ==
    IF response.kind = "reject" THEN Throw(response.e)
    ELSE IF ~Ok(response) THEN
        IF response.body.json = "value"
        THEN Throw(Error(MsgTokenFailed \o IntToStr(response.status) \o <<" ">>
                         \o response.statusText \o <<" ","-"," ">>
                         \o response.body.stringified))
        ELSE IF response.body.textOk
        THEN Throw(Error(MsgTokenFailed \o IntToStr(response.status) \o <<" ">>
                         \o response.statusText \o <<" ","-"," ">>
                         \o response.body.text))
        ELSE Throw(Error(MsgBodyUsed))
    ELSE IF response.body.json = "throws" THEN Throw(Error(MsgJsonSyntax))
    ELSE IF response.body.isNull THEN Throw(Error(MsgNullProperty))
    ELSE Return(TemplateStr(response.body.access_token))

\* getClientCredentialsToken from the answer of the token endpoint on
getClientCredentialsTokenResume(response) ==
    IF response.kind = "reject" THEN Throw(response.e)
    ELSE IF ~Ok(response) THEN
        IF response.body.json = "value"
        THEN Throw(Error(MsgTokenFailed \o IntToStr(response.status) \o <<" ">>
                         \o response.statusText \o <<" ","-"," ">>
                         \o response.body.stringified))
        ELSE IF response.body.textOk
        THEN Throw(Error(MsgTokenFailed \o IntToStr(response.status) \o <<" ">>
                         \o response.statusText \o <<" ","-"," ">>
                         \o response.body.text))
        ELSE Throw(Error(MsgBodyUsed))
    ELSE IF response.body.json = "throws" THEN Throw(Error(MsgJsonSyntax))
    ELSE IF response.body.isNull THEN Throw(Error(MsgNullProperty))
    ELSE IF ~Truthy(response.body.access_token) THEN Throw(Error(MsgNoAccessToken))
    ELSE Return(response.body.access_token.v)

\* token.startsWith('Bearer ') ? token : `Bearer ${token}`
asBearer(token) ==
    IF startsWith(token, BearerPrefix) THEN token ELSE BearerPrefix \o token

\* getAuthorizationHeader with a slip: Basic credentials are tried before the bearer token
getAuthorizationHeaderBasicFirst(context) ==
    LET env     == context.environment
        secrets == context.secrets
    IN  IF Truthy(secrets.BASIC_PASSWORD) /\ Truthy(secrets.BASIC_USERNAME)
        THEN Return(BasicPrefix
                    \o toBase64(secrets.BASIC_USERNAME.v \o <<":">> \o secrets.BASIC_PASSWORD.v))
        ELSE IF Truthy(secrets.BEARER_AUTH_TOKEN)
        THEN Return(asBearer(secrets.BEARER_AUTH_TOKEN.v))
        ELSE IF Truthy(secrets.OAUTH2_AUTHORIZATION_CODE_ACCESS_TOKEN)
        THEN Return(asBearer(secrets.OAUTH2_AUTHORIZATION_CODE_ACCESS_TOKEN.v))
        ELSE IF Truthy(secrets.OAUTH2_CLIENT_CREDENTIALS_CLIENT_SECRET)
        THEN IF ~Truthy(env.OAUTH2_CLIENT_CREDENTIALS_TOKEN_URL)
                \/ ~Truthy(env.OAUTH2_CLIENT_CREDENTIALS_CLIENT_ID)
             THEN Throw(Error(MsgOAuthEnv))
             ELSE getClientCredentialsToken(
                    [tokenUrl     |-> env.OAUTH2_CLIENT_CREDENTIALS_TOKEN_URL,
                     clientId     |-> env.OAUTH2_CLIENT_CREDENTIALS_CLIENT_ID,
                     clientSecret |-> secrets.OAUTH2_CLIENT_CREDENTIALS_CLIENT_SECRET,
                     scope        |-> env.OAUTH2_CLIENT_CREDENTIALS_SCOPE,
                     audience     |-> env.OAUTH2_CLIENT_CREDENTIALS_AUDIENCE,
                     authStyle    |-> env.OAUTH2_CLIENT_CREDENTIALS_AUTH_STYLE])
        ELSE Throw(Error(MsgNoAuth))

\* getAuthorizationHeader with a slip: without any credential the request goes out
\* with an empty Authorization header instead of failing
getAuthorizationHeaderAnonymous(context) ==
    LET env     == context.environment
        secrets == context.secrets
    IN  IF Truthy(secrets.BEARER_AUTH_TOKEN)
        THEN Return(asBearer(secrets.BEARER_AUTH_TOKEN.v))
        ELSE IF Truthy(secrets.BASIC_PASSWORD) /\ Truthy(secrets.BASIC_USERNAME)
        THEN Return(BasicPrefix
                    \o toBase64(secrets.BASIC_USERNAME.v \o <<":">> \o secrets.BASIC_PASSWORD.v))
        ELSE IF Truthy(secrets.OAUTH2_AUTHORIZATION_CODE_ACCESS_TOKEN)
        THEN Return(asBearer(secrets.OAUTH2_AUTHORIZATION_CODE_ACCESS_TOKEN.v))
        ELSE IF Truthy(secrets.OAUTH2_CLIENT_CREDENTIALS_CLIENT_SECRET)
        THEN IF ~Truthy(env.OAUTH2_CLIENT_CREDENTIALS_TOKEN_URL)
                \/ ~Truthy(env.OAUTH2_CLIENT_CREDENTIALS_CLIENT_ID)
             THEN Throw(Error(MsgOAuthEnv))
             ELSE getClientCredentialsToken(
                    [tokenUrl     |-> env.OAUTH2_CLIENT_CREDENTIALS_TOKEN_URL,
                     clientId     |-> env.OAUTH2_CLIENT_CREDENTIALS_CLIENT_ID,
                     clientSecret |-> secrets.OAUTH2_CLIENT_CREDENTIALS_CLIENT_SECRET,
                     scope        |-> env.OAUTH2_CLIENT_CREDENTIALS_SCOPE,
                     audience     |-> env.OAUTH2_CLIENT_CREDENTIALS_AUDIENCE,
                     authStyle    |-> env.OAUTH2_CLIENT_CREDENTIALS_AUTH_STYLE])
        ELSE Return(<<>>)

\* getAuthorizationHeader with a slip: one Basic secret is enough for the Basic method
getAuthorizationHeaderBasicEither(context) ==
    LET env     == context.environment
        secrets == context.secrets
    IN  IF Truthy(secrets.BEARER_AUTH_TOKEN)
        THEN Return(asBearer(secrets.BEARER_AUTH_TOKEN.v))
        ELSE IF Truthy(secrets.BASIC_PASSWORD) \/ Truthy(secrets.BASIC_USERNAME)
        THEN Return(BasicPrefix
                    \o toBase64(TemplateStr(secrets.BASIC_USERNAME) \o <<":">>
                                \o TemplateStr(secrets.BASIC_PASSWORD)))
        ELSE IF Truthy(secrets.OAUTH2_AUTHORIZATION_CODE_ACCESS_TOKEN)
        THEN Return(asBearer(secrets.OAUTH2_AUTHORIZATION_CODE_ACCESS_TOKEN.v))
        ELSE IF Truthy(secrets.OAUTH2_CLIENT_CREDENTIALS_CLIENT_SECRET)
        THEN IF ~Truthy(env.OAUTH2_CLIENT_CREDENTIALS_TOKEN_URL)
                \/ ~Truthy(env.OAUTH2_CLIENT_CREDENTIALS_CLIENT_ID)
             THEN Throw(Error(MsgOAuthEnv))
             ELSE getClientCredentialsToken(
                    [tokenUrl     |-> env.OAUTH2_CLIENT_CREDENTIALS_TOKEN_URL,
                     clientId     |-> env.OAUTH2_CLIENT_CREDENTIALS_CLIENT_ID,
                     clientSecret |-> secrets.OAUTH2_CLIENT_CREDENTIALS_CLIENT_SECRET,
                     scope        |-> env.OAUTH2_CLIENT_CREDENTIALS_SCOPE,
                     audience     |-> env.OAUTH2_CLIENT_CREDENTIALS_AUDIENCE,
                     authStyle    |-> env.OAUTH2_CLIENT_CREDENTIALS_AUTH_STYLE])
        ELSE Throw(Error(MsgNoAuth))

\* getAuthorizationHeader up to its first suspension (methods 1-3 never suspend)
getAuthorizationHeader(context) ==
    LET env     == context.environment
        secrets == context.secrets
    IN  IF Truthy(secrets.BEARER_AUTH_TOKEN)
        THEN Return(asBearer(secrets.BEARER_AUTH_TOKEN.v))
        ELSE IF Truthy(secrets.BASIC_PASSWORD) /\ Truthy(secrets.BASIC_USERNAME)
        THEN Return(BasicPrefix
                    \o toBase64(secrets.BASIC_USERNAME.v \o <<":">> \o secrets.BASIC_PASSWORD.v))
        ELSE IF Truthy(secrets.OAUTH2_AUTHORIZATION_CODE_ACCESS_TOKEN)
        THEN Return(asBearer(secrets.OAUTH2_AUTHORIZATION_CODE_ACCESS_TOKEN.v))
        ELSE IF Truthy(secrets.OAUTH2_CLIENT_CREDENTIALS_CLIENT_SECRET)
        THEN IF ~Truthy(env.OAUTH2_CLIENT_CREDENTIALS_TOKEN_URL)
                \/ ~Truthy(env.OAUTH2_CLIENT_CREDENTIALS_CLIENT_ID)
             THEN Throw(Error(MsgOAuthEnv))
             ELSE getClientCredentialsToken(
                    [tokenUrl     |-> env.OAUTH2_CLIENT_CREDENTIALS_TOKEN_URL,
                     clientId     |-> env.OAUTH2_CLIENT_CREDENTIALS_CLIENT_ID,
                     clientSecret |-> secrets.OAUTH2_CLIENT_CREDENTIALS_CLIENT_SECRET,
                     scope        |-> env.OAUTH2_CLIENT_CREDENTIALS_SCOPE,
                     audience     |-> env.OAUTH2_CLIENT_CREDENTIALS_AUDIENCE,
                     authStyle    |-> env.OAUTH2_CLIENT_CREDENTIALS_AUTH_STYLE])
        ELSE Throw(Error(MsgNoAuth))

\* getAuthorizationHeader from the answer of the token endpoint on
getAuthorizationHeaderResume(response) ==
    LET token == getClientCredentialsTokenResume(response)
    IN  IF token.k = "return" THEN Return(BearerPrefix \o token.v) ELSE token

(* ------------------------- Session Revocation Invoker ------------------ *)
\* revokeUserSessions with a slip: the userId is put into the path as it is
revokeUserSessionsUnencoded(userId, baseUrl, authHeader) ==
    [method  |-> StrDELETE,
     url     |-> baseUrl \o PathUsers \o TemplateStr(userId) \o PathSessions,
     headers |-> [Authorization |-> Str(authHeader),
                  Accept        |-> Str(AppJson),
                  ContentType   |-> Str(AppJson)],
     body    |-> undefined]

\* the request of revokeUserSessions(userId, baseUrl, authHeader)
revokeUserSessions(userId, baseUrl, authHeader) ==
    [method  |-> StrDELETE,
     url     |-> baseUrl \o PathUsers \o encodeURIComponent(userId) \o PathSessions,
     headers |-> [Authorization |-> Str(authHeader),
                  Accept        |-> Str(AppJson),
                  ContentType   |-> Str(AppJson)],
     body    |-> undefined]

\* sswsHeader with a slip: the SSWS prefix is added to a token that has it already
sswsHeaderAlwaysPrefixed(authHeader) ==
    IF startsWith(authHeader, BearerPrefix)
    THEN SSWSPrefix \o substring(authHeader, 7)
    ELSE authHeader

\* Okta's SSWS scheme in place of Bearer
sswsHeader(authHeader) ==
    IF startsWith(authHeader, BearerPrefix)
    THEN LET token == substring(authHeader, 7)
         IN  IF startsWith(token, SSWSPrefix) THEN token ELSE SSWSPrefix \o token
    ELSE authHeader

\* invokeError with a slip: the status code is attached only when the body parses
invokeErrorStatusOnlyIfParsed(response) ==
    LET statusCode == response.status
        body       == response.body
        summary    == body.json = "value" /\ ~body.isNull /\ Truthy(body.errorSummary)
        errorMessage ==
            IF summary THEN MsgFailed \o TemplateStr(body.errorSummary)
            ELSE MsgFailedHttp \o IntToStr(statusCode)
    IN  IF body.json = "throws" THEN Error(errorMessage)
        ELSE HttpError(errorMessage, statusCode)

\* invokeError with a slip: errorSummary is used whenever the field is defined
invokeErrorAnySummary(response) ==
    LET statusCode == response.status
        body       == response.body
        summary    == body.json = "value" /\ ~body.isNull /\ body.errorSummary # undefined
        errorMessage ==
            IF summary THEN MsgFailed \o TemplateStr(body.errorSummary)
            ELSE MsgFailedHttp \o IntToStr(statusCode)
    IN  HttpError(errorMessage, statusCode)

\* the error raised by invoke for a non-ok response
invokeError(response) ==
    LET statusCode == response.status
        body       == response.body
        summary    == body.json = "value" /\ ~body.isNull /\ Truthy(body.errorSummary)
        errorMessage ==
            IF summary THEN MsgFailed \o TemplateStr(body.errorSummary)
            ELSE MsgFailedHttp \o IntToStr(statusCode)
    IN  HttpError(errorMessage, statusCode)

\* the success result of invoke, and of error with a recoveryMethod
Result(userId, address, revokedAt, recoveryMethod) ==
    [userId          |-> userId,
     sessionsRevoked |-> TRUE,
     address         |-> address,
     revokedAt       |-> toISOString(revokedAt),
     recoveryMethod  |-> recoveryMethod]

(* ------------------------- Recovery Policy ----------------------------- *)
\* statusCode === 429 || message.includes('429') || message.includes('rate limit')
isRateLimit(e) ==
    \/ e.statusCode = Num(429)
    \/ includes(e.message, Str429)
    \/ includes(e.message, StrRateLimit)

\* [502, 503, 504].includes(statusCode)
isServiceError(e) ==
    e.statusCode \in {Num(502), Num(503), Num(504)}

\* parseInt(context.env?.RATE_LIMIT_BACKOFF_MS || '30000', 10)
rateLimitBackoffMs(ctx) ==
    parseInt(OrElse(ctx.env.RATE_LIMIT_BACKOFF_MS, Str(DefaultRateLimitBackoff)).v)

\* parseInt(context.env?.SERVICE_ERROR_BACKOFF_MS || '10000', 10)
serviceErrorBackoffMs(ctx) ==
    parseInt(OrElse(ctx.env.SERVICE_ERROR_BACKOFF_MS, Str(DefaultServiceErrorBackoff)).v)

\* the delay setTimeout uses: a delay that is NaN or less than 1 is set to 1
TimerDelay(ms) ==
    IF ms.t = "number" /\ ms.n >= 1 THEN ms.n ELSE 1

\* unrecoverable with a slip: the status code of the prior failure is attached
unrecoverableWithStatus(p) ==
    [Error(MsgUnrecoverable \o TemplateStr(p.userId) \o <<":", " ">> \o p.error.message)
        EXCEPT !.statusCode = p.error.statusCode]

\* new Error(`Unrecoverable error revoking sessions for user ${userId}: ${error.message}`)
unrecoverable(p) ==
    Error(MsgUnrecoverable \o TemplateStr(p.userId) \o <<":", " ">> \o p.error.message)

(* ------------------------- console output ------------------------------ *)
\* console.log of invoke: Starting Okta session revocation for user: <userId>
invokeStartLog(userId) ==
    <<"S","t","a","r","t","i","n","g"," ","O","k","t","a"," ","s","e","s","s","i","o","n",
      " ","r","e","v","o","c","a","t","i","o","n"," ","f","o","r"," ","u","s","e","r",":",
      " ">>
    \o TemplateStr(userId)

\* console.log of invoke: Successfully revoked all sessions for user <userId>
invokeSuccessLog(userId) ==
    <<"S","u","c","c","e","s","s","f","u","l","l","y"," ","r","e","v","o","k","e","d"," ",
      "a","l","l"," ","s","e","s","s","i","o","n","s"," ","f","o","r"," ","u","s","e","r",
      " ">>
    \o TemplateStr(userId)

\* console.error of invoke for a non-ok response: the parsed body, or the notice
\* that the body did not parse (also when reading errorSummary of null throws)
invokeErrorLog(response) ==
    IF response.body.json = "value" /\ ~response.body.isNull
    THEN
      <<"O","k","t","a"," ","A","P","I"," ","e","r","r","o","r"," ","r","e","s","p","o","n",
        "s","e",":"," ">>
      \o response.body.stringified
    ELSE
      <<"F","a","i","l","e","d"," ","t","o"," ","p","a","r","s","e"," ","e","r","r","o","r",
        " ","r","e","s","p","o","n","s","e">>

\* console.error of error: Session revocation failed for user <userId>: <message>
errorStartLog(p) ==
    <<"S","e","s","s","i","o","n"," ","r","e","v","o","c","a","t","i","o","n"," ","f","a",
      "i","l","e","d"," ","f","o","r"," ","u","s","e","r"," ">>
    \o TemplateStr(p.userId) \o <<":", " ">> \o p.error.message

\* console.log of error before a backoff wait of the class
errorWaitLog(class, ms) ==
    (IF class = "rate_limit"
     THEN
      <<"R","a","t","e"," ","l","i","m","i","t","e","d"," ","b","y"," ","O","k","t","a"," ",
        "A","P","I"," ","-"," ","w","a","i","t","i","n","g"," ">>
     ELSE
      <<"O","k","t","a"," ","s","e","r","v","i","c","e"," ","t","e","m","p","o","r","a","r",
        "i","l","y"," ","u","n","a","v","a","i","l","a","b","l","e"," ","-"," ","w","a","i",
        "t","i","n","g"," ">>)
    \o TemplateStr(ms) \o
    <<"m","s"," ","b","e","f","o","r","e"," ","r","e","t","r","y">>

\* console.log of error before the retry of the class
errorRetryLog(class, userId) ==
    <<"R","e","t","r","y","i","n","g"," ","s","e","s","s","i","o","n"," ","r","e","v","o",
      "c","a","t","i","o","n"," ","f","o","r"," ","u","s","e","r"," ">>
    \o TemplateStr(userId) \o
    (IF class = "rate_limit"
     THEN
      <<" ","a","f","t","e","r"," ","r","a","t","e"," ","l","i","m","i","t"," ","b","a","c",
        "k","o","f","f">>
     ELSE
      <<" ","a","f","t","e","r"," ","s","e","r","v","i","c","e"," ","i","n","t","e","r","r",
        "u","p","t","i","o","n">>)

\* console.log of error after a retry of the class that was answered ok
errorSuccessLog(class, userId) ==
    <<"S","u","c","c","e","s","s","f","u","l","l","y"," ","r","e","v","o","k","e","d"," ",
      "s","e","s","s","i","o","n","s"," ","f","o","r"," ","u","s","e","r"," ">>
    \o TemplateStr(userId) \o
    (IF class = "rate_limit"
     THEN
      <<" ","a","f","t","e","r"," ","r","e","t","r","y">>
     ELSE
      <<" ","a","f","t","e","r"," ","s","e","r","v","i","c","e"," ","r","e","c","o","v","e",
        "r","y">>)

\* console.error of error: Unable to recover from error for user <userId>
errorUnableLog(userId) ==
    <<"U","n","a","b","l","e"," ","t","o"," ","r","e","c","o","v","e","r"," ","f","r","o",
      "m"," ","e","r","r","o","r"," ","f","o","r"," ","u","s","e","r"," ">>
    \o TemplateStr(userId)

\* console.log of halt: Session revocation job is being halted (<reason>) for user <userId>
haltLog(p) ==
    <<"S","e","s","s","i","o","n"," ","r","e","v","o","c","a","t","i","o","n"," ","j","o",
      "b"," ","i","s"," ","b","e","i","n","g"," ","h","a","l","t","e","d"," ","(">>
    \o TemplateStr(p.reason) \o
    <<")"," ","f","o","r"," ","u","s","e","r"," ">>
    \o TemplateStr(p.userId)

(* ------------------------- the job run --------------------------------- *)
\* recovery   : "self" for the bundled script whose error handler retries itself,
\*              "framework" for the script whose error handler re-throws
\* params     : the job parameters; the framework adds `error` when it calls error
\* context    : secrets, environment and env bundles of the execution context
\* haltReason : the reason the framework passes to halt (undefined: it never halts)
\* pc         : where the running handler is suspended
\* baseUrl, authHeader : the locals of the running handler
\* calls      : every call of fetch so far, with the handler that made it
\* answers    : the answer to each call of fetch that has been answered, in order
\* timers     : every call of setTimeout so far
\* now        : the clock
\* outcome    : how the last handler call ended
\* halted     : the result of halt
\* logs       : the lines written to the console so far
VARIABLES recovery, params, context, haltReason, pc, baseUrl, authHeader,
          calls, answers, timers, now, outcome, halted, logs

vars ==
    <<recovery, params, context, haltReason, pc, baseUrl, authHeader,
      calls, answers, timers, now, outcome, halted, logs>>

job ==
    <<recovery, params, context, haltReason>>

None ==
    [k |-> "none"]

\* the handler's frame: what one step of a handler may change
Frame ==
    [pc |-> pc, baseUrl |-> baseUrl, authHeader |-> authHeader,
     calls |-> calls, answers |-> answers, timers |-> timers, outcome |-> outcome,
     logs |-> logs]

\* the frame of a handler that is resumed by the answer to its fetch
Answered(response) ==
    [Frame EXCEPT !.answers = Append(@, response)]

Becomes(f) ==
    /\ pc' = f.pc
    /\ baseUrl' = f.baseUrl
    /\ authHeader' = f.authHeader
    /\ calls' = f.calls
    /\ answers' = f.answers
    /\ timers' = f.timers
    /\ outcome' = f.outcome
    /\ logs' = f.logs

\* console.log(line), console.error(line)
Logs(f, line) ==
    [f EXCEPT !.logs = Append(@, line)]

\* the handler ends: invoke hands over to the framework, error ends the run
Ends(f, by, completion) ==
    [f EXCEPT !.pc = IF by = "invoke" THEN "invoked" ELSE "done",
              !.outcome = completion]

\* fetch(request), issued by handler `by` at time t; the handler is suspended at `at`
Fetches(f, by, t, request, at) ==
    [f EXCEPT !.calls = Append(@, [by |-> by, at |-> t, request |-> request]),
              !.pc = at]

\* await new Promise(resolve => setTimeout(resolve, ms))
Sleeps(f, class, ms, t, at) ==
    [f EXCEPT !.timers = Append(@, [class |-> class, ms |-> ms, at |-> t]),
              !.pc = at]

\* the SSWS rewrite of invoke: always for a Bearer header in the bundled script,
\* only in Bearer-token mode in the script that delegates recovery
invokeHeader(header) ==
    IF recovery = "self" \/ Truthy(context.secrets.BEARER_AUTH_TOKEN)
    THEN sswsHeader(header)
    ELSE header

\* invokeSend with a slip: the request header is written to the console
invokeSendLoggingHeader(f, header, t) ==
    LET h == invokeHeader(header)
    IN  Fetches(Logs([f EXCEPT !.authHeader = Str(h)], h), "invoke", t,
                revokeUserSessions(params.userId, f.baseUrl.v, h), "invoke_delete")

\* invoke from the resolved Authorization header to its await fetch
invokeSend(f, header, t) ==
    LET h == invokeHeader(header)
    IN  Fetches([f EXCEPT !.authHeader = Str(h)], "invoke", t,
                revokeUserSessions(params.userId, f.baseUrl.v, h), "invoke_delete")

\* invoke(params, context) up to its first suspension
invokeCall(f) ==
    LET userId == params.userId
        base   == getBaseUrl(params, context)
        auth   == getAuthorizationHeader(context)
        g      == Logs(f, invokeStartLog(userId))
    IN  IF recovery = "self" /\ (~Truthy(userId) \/ ~IsString(userId))
        THEN Ends(g, "invoke", Throw(Error(MsgInvalidUserId)))
        ELSE IF base.k = "throw" THEN Ends(g, "invoke", base)
        ELSE IF auth.k = "throw" THEN Ends(g, "invoke", auth)
        ELSE IF auth.k = "await"
        THEN Fetches([g EXCEPT !.baseUrl = Str(base.v)], "invoke", now,
                     auth.request, "invoke_token")
        ELSE invokeSend([g EXCEPT !.baseUrl = Str(base.v)], auth.v, now)

\* invokeSettle with a slip: only 204 counts as success
invokeSettleOnly204(f, response, t) ==
    IF response.kind = "reject" THEN Ends(f, "invoke", Throw(response.e))
    ELSE IF response.status = 204
    THEN Ends(Logs(f, invokeSuccessLog(params.userId)), "invoke",
              Return(Result(params.userId, f.baseUrl.v, t, undefined)))
    ELSE Ends(Logs(f, invokeErrorLog(response)), "invoke", Throw(invokeError(response)))

\* invoke from the answer to its DELETE on
invokeSettle(f, response, t) ==
    IF response.kind = "reject" THEN Ends(f, "invoke", Throw(response.e))
    ELSE IF Ok(response)
    THEN Ends(Logs(f, invokeSuccessLog(params.userId)), "invoke",
              Return(Result(params.userId, f.baseUrl.v, t, undefined)))
    ELSE Ends(Logs(f, invokeErrorLog(response)), "invoke", Throw(invokeError(response)))

\* errorPolicy with a slip: each class waits for the backoff of the other class
errorPolicySwappedBackoff(f, p, from, t) ==
    IF from = "rate_limit" /\ isRateLimit(p.error)
    THEN Sleeps(Logs(f, errorWaitLog("rate_limit", serviceErrorBackoffMs(context))),
                "rate_limit", serviceErrorBackoffMs(context), t, "error_wait_rate_limit")
    ELSE IF isServiceError(p.error)
    THEN Sleeps(Logs(f, errorWaitLog("service", rateLimitBackoffMs(context))),
                "service", rateLimitBackoffMs(context), t, "error_wait_service")
    ELSE Ends(Logs(f, errorUnableLog(p.userId)), "error", Throw(unrecoverable(p)))

\* the start of a wait-and-retry, or the terminal error, of the error handler:
\* from is the statement the handler has reached
errorPolicy(f, p, from, t) ==
    IF from = "rate_limit" /\ isRateLimit(p.error)
    THEN Sleeps(Logs(f, errorWaitLog("rate_limit", rateLimitBackoffMs(context))),
                "rate_limit", rateLimitBackoffMs(context), t, "error_wait_rate_limit")
    ELSE IF isServiceError(p.error)
    THEN Sleeps(Logs(f, errorWaitLog("service", serviceErrorBackoffMs(context))),
                "service", serviceErrorBackoffMs(context), t, "error_wait_service")
    ELSE Ends(Logs(f, errorUnableLog(p.userId)), "error", Throw(unrecoverable(p)))

\* error from the resolved Authorization header on
errorRecover(f, p, header, t) ==
    errorPolicy([f EXCEPT !.authHeader = Str(sswsHeader(header))], p, "rate_limit", t)

\* errorCall with a slip: the handler retries by itself in both variants
errorCallAlwaysRecovers(f, p) ==
    LET base == getBaseUrl(p, context)
        auth == getAuthorizationHeader(context)
        g    == Logs(f, errorStartLog(p))
    IN  IF base.k = "throw" THEN Ends(g, "error", base)
        ELSE IF auth.k = "throw" THEN Ends(g, "error", auth)
        ELSE IF auth.k = "await"
        THEN Fetches([g EXCEPT !.baseUrl = Str(base.v)], "error", now,
                     auth.request, "error_token")
        ELSE errorRecover([g EXCEPT !.baseUrl = Str(base.v)], p, auth.v, now)

\* errorCall with a slip: the prior failure is classified first, and the base URL and
\* the credentials are resolved only for a failure that is retried
errorCallClassifiesFirst(f, p) ==
    LET base == getBaseUrl(p, context)
        auth == getAuthorizationHeader(context)
        g    == Logs(f, errorStartLog(p))
    IN  IF recovery = "framework" THEN Ends(g, "error", Throw(p.error))
        ELSE IF ~isRateLimit(p.error) /\ ~isServiceError(p.error)
        THEN Ends(Logs(g, errorUnableLog(p.userId)), "error", Throw(unrecoverable(p)))
        ELSE IF base.k = "throw" THEN Ends(g, "error", base)
        ELSE IF auth.k = "throw" THEN Ends(g, "error", auth)
        ELSE IF auth.k = "await"
        THEN Fetches([g EXCEPT !.baseUrl = Str(base.v)], "error", now,
                     auth.request, "error_token")
        ELSE errorRecover([g EXCEPT !.baseUrl = Str(base.v)], p, auth.v, now)

\* errorCall with a slip: the Authorization header resolved by invoke is kept and used
errorCallCachedHeader(f, p) ==
    LET base == getBaseUrl(p, context)
        auth == IF authHeader.t = "string" THEN Return(authHeader.v)
                ELSE getAuthorizationHeader(context)
        g    == Logs(f, errorStartLog(p))
    IN  IF recovery = "framework" THEN Ends(g, "error", Throw(p.error))
        ELSE IF base.k = "throw" THEN Ends(g, "error", base)
        ELSE IF auth.k = "throw" THEN Ends(g, "error", auth)
        ELSE IF auth.k = "await"
        THEN Fetches([g EXCEPT !.baseUrl = Str(base.v)], "error", now,
                     auth.request, "error_token")
        ELSE errorRecover([g EXCEPT !.baseUrl = Str(base.v)], p, auth.v, now)

\* error(params, context) up to its first suspension
errorCall(f, p) ==
    LET base == getBaseUrl(p, context)
        auth == getAuthorizationHeader(context)
        g    == Logs(f, errorStartLog(p))
    IN  IF recovery = "framework" THEN Ends(g, "error", Throw(p.error))
        ELSE IF base.k = "throw" THEN Ends(g, "error", base)
        ELSE IF auth.k = "throw" THEN Ends(g, "error", auth)
        ELSE IF auth.k = "await"
        THEN Fetches([g EXCEPT !.baseUrl = Str(base.v)], "error", now,
                     auth.request, "error_token")
        ELSE errorRecover([g EXCEPT !.baseUrl = Str(base.v)], p, auth.v, now)

\* errorRetry with a slip: the retried request is sent twice
errorRetryTwice(f, p, t, at) ==
    LET class == IF at = "error_retry_rate_limit" THEN "rate_limit" ELSE "service"
    IN  Fetches(Fetches(Logs(f, errorRetryLog(class, p.userId)), "error", t,
                        revokeUserSessions(p.userId, f.baseUrl.v, f.authHeader.v), at),
                "error", t, revokeUserSessions(p.userId, f.baseUrl.v, f.authHeader.v), at)

\* the retry of the error handler, once its backoff timer has fired at time t
errorRetry(f, p, t, at) ==
    LET class == IF at = "error_retry_rate_limit" THEN "rate_limit" ELSE "service"
    IN  Fetches(Logs(f, errorRetryLog(class, p.userId)), "error", t,
                revokeUserSessions(p.userId, f.baseUrl.v, f.authHeader.v), at)

\* errorSettle with a slip: every recovered run is labelled as a service retry
errorSettleOneLabel(f, p, class, response, t) ==
    IF response.kind = "reject" THEN Ends(f, "error", Throw(response.e))
    ELSE IF Ok(response)
    THEN Ends(Logs(f, errorSuccessLog(class, p.userId)), "error",
              Return(Result(p.userId, f.baseUrl.v, t, Str(ServiceRetry))))
    ELSE IF class = "rate_limit" THEN errorPolicy(f, p, "service", t)
    ELSE Ends(f, "error", Throw(unrecoverable(p)))

\* errorSettle with a slip: a retry that is answered with a failure starts over
errorSettleRetriesAgain(f, p, class, response, t) ==
    IF response.kind = "reject" THEN Ends(f, "error", Throw(response.e))
    ELSE IF Ok(response)
    THEN Ends(Logs(f, errorSuccessLog(class, p.userId)), "error",
              Return(Result(p.userId, f.baseUrl.v, t,
                            Str(IF class = "rate_limit" THEN RateLimitRetry
                                ELSE ServiceRetry))))
    ELSE errorPolicy(f, p, "rate_limit", t)

\* error from the answer to a retry on; `class` is the retry that was made
errorSettle(f, p, class, response, t) ==
    IF response.kind = "reject" THEN Ends(f, "error", Throw(response.e))
    ELSE IF Ok(response)
    THEN Ends(Logs(f, errorSuccessLog(class, p.userId)), "error",
              Return(Result(p.userId, f.baseUrl.v, t,
                            Str(IF class = "rate_limit" THEN RateLimitRetry
                                ELSE ServiceRetry))))
    ELSE IF class = "rate_limit" THEN errorPolicy(f, p, "service", t)
    ELSE Ends(f, "error", Throw(unrecoverable(p)))

\* haltResult with a slip: the userId is reported as it was given
haltResultGivenUserId(p, t) ==
    [userId           |-> p.userId,
     reason           |-> p.reason,
     haltedAt         |-> toISOString(t),
     cleanupCompleted |-> TRUE]

\* halt(params, context)
haltResult(p, t) ==
    [userId           |-> OrElse(p.userId, Str(StrUnknown)),
     reason           |-> p.reason,
     haltedAt         |-> toISOString(t),
     cleanupCompleted |-> TRUE]

(* ------------------------- inputs and environment ---------------------- *)
AddrParam ==
    <<"h","t","t","p","s",":","/","/","p",".","o","k","t","a",".","c","o","m">>
AddrEnv ==
    <<"h","t","t","p","s",":","/","/","e",".","o","k","t","a",".","c","o","m">>
TokenUrl ==
    <<"h","t","t","p","s",":","/","/","i","d","p","/","t","o","k","e","n">>
SummaryNotFound ==
    <<"N","o","t"," ","f","o","u","n","d",":"," ","R","e","s","o","u","r","c","e"," ","n","o",
    "t"," ","f","o","u","n","d">>
SummaryRateLimit ==
    <<"A","P","I"," ","r","a","t","e"," ","l","i","m","i","t"," ","e","x","c","e","e","d","e",
    "d">>
SummaryE429 ==
    <<"E","0","0","0","0","4","2","9">>
JsonInvalidClient ==
    <<"{","\"","e","r","r","o","r","\"",":","\"","i","n","v","a","l","i","d","_","c","l","i",
    "e","n","t","\"","}">>
TextHtml ==
    <<"<","h","t","m","l",">">>
StatusTextUnauthorized ==
    <<"U","n","a","u","t","h","o","r","i","z","e","d">>
StatusTextTooMany ==
    <<"T","o","o"," ","M","a","n","y"," ","R","e","q","u","e","s","t","s">>
ReasonTimeout ==
    <<"t","i","m","e","o","u","t">>
ReasonCancelled ==
    <<"c","a","n","c","e","l","l","e","d">>

\* the longest time a network answer takes
MaxLatency ==
    1

Latency ==
    0..MaxLatency

JsonBody(errorSummary, access_token, stringified) ==
    [json |-> "value", isNull |-> FALSE, errorSummary |-> errorSummary,
     access_token |-> access_token, stringified |-> stringified,
     textOk |-> FALSE, text |-> stringified]

\* a body whose JSON value is null
NullBody ==
    [JsonBody(undefined, undefined, StrNull) EXCEPT !.isNull = TRUE]

\* a body that is not JSON: json() throws; text() answers, or throws as well when
\* the body was consumed by json()
TextBody(text, textOk) ==
    [json |-> "throws", isNull |-> FALSE, errorSummary |-> undefined,
     access_token |-> undefined, stringified |-> <<>>,
     textOk |-> textOk, text |-> text]

Response(status, statusText, body) ==
    [kind |-> "response", status |-> status, statusText |-> statusText, body |-> body]

Rejection ==
    [kind |-> "reject", e |-> Error(MsgFetchFailed)]

RevokeFailStatuses ==
    {404, 429, 500, 502, 503, 504}

RevokeFailBodies ==
    {TextBody(TextHtml, TRUE),
     NullBody,
     JsonBody(undefined, undefined, <<"{", "}">>),
     JsonBody(Str(<<>>), undefined, <<"{", "}">>),
     JsonBody(Str(SummaryNotFound), undefined, <<"{", "}">>),
     JsonBody(Str(SummaryRateLimit), undefined, <<"{", "}">>),
     JsonBody(Str(SummaryE429), undefined, <<"{", "}">>)}

\* the answers of the server to DELETE .../sessions
RevokeResponses ==
    {Rejection,
     Response(204, <<>>, TextBody(<<>>, TRUE)),
     Response(200, <<>>, JsonBody(undefined, undefined, <<"{", "}">>))}
    \cup {Response(s, <<>>, b) : s \in RevokeFailStatuses, b \in RevokeFailBodies}

\* the answers of the server to the retried DELETE: the error handler reads no body
RetryResponses ==
    {Rejection,
     Response(204, <<>>, TextBody(<<>>, TRUE)),
     Response(401, <<>>, TextBody(TextHtml, TRUE)),
     Response(429, <<>>, JsonBody(Str(SummaryRateLimit), undefined, <<"{", "}">>)),
     Response(503, <<>>, NullBody)}

\* the answers of the token endpoint
TokenResponses ==
    {Rejection,
     Response(200, <<>>, JsonBody(undefined, Str(<<"a", "t", "1">>), <<"{", "}">>)),
     Response(200, <<>>, JsonBody(undefined, Str(BearerPrefix \o <<"a", "t", "2">>), <<"{", "}">>)),
     Response(200, <<>>, JsonBody(undefined, undefined, <<"{", "}">>)),
     Response(200, <<>>, NullBody),
     Response(200, <<>>, TextBody(TextHtml, TRUE)),
     Response(401, StatusTextUnauthorized, JsonBody(undefined, undefined, JsonInvalidClient)),
     Response(429, StatusTextTooMany, TextBody(TextHtml, TRUE)),
     Response(503, <<>>, TextBody(TextHtml, FALSE))}

NoSecrets ==
    [BEARER_AUTH_TOKEN |-> undefined,
     BASIC_USERNAME |-> undefined,
     BASIC_PASSWORD |-> undefined,
     OAUTH2_AUTHORIZATION_CODE_ACCESS_TOKEN |-> undefined,
     OAUTH2_CLIENT_CREDENTIALS_CLIENT_SECRET |-> undefined]

NoEnvironment ==
    [ADDRESS |-> undefined,
     OAUTH2_CLIENT_CREDENTIALS_TOKEN_URL |-> undefined,
     OAUTH2_CLIENT_CREDENTIALS_CLIENT_ID |-> undefined,
     OAUTH2_CLIENT_CREDENTIALS_SCOPE |-> undefined,
     OAUTH2_CLIENT_CREDENTIALS_AUDIENCE |-> undefined,
     OAUTH2_CLIENT_CREDENTIALS_AUTH_STYLE |-> undefined,
     RATE_LIMIT_BACKOFF_MS |-> undefined,
     SERVICE_ERROR_BACKOFF_MS |-> undefined]

NoEnv ==
    [RATE_LIMIT_BACKOFF_MS |-> undefined,
     SERVICE_ERROR_BACKOFF_MS |-> undefined]

Tok ==
    <<"t", "o", "k">>

Maybe(s) ==
    {undefined, Str(s)}

BearerTokens ==
    {Str(Tok), Str(BearerPrefix \o Tok), Str(SSWSPrefix \o Tok),
     Str(BearerPrefix \o SSWSPrefix \o Tok)}

\* every combination of present and absent secrets
AllSecrets ==
    [BEARER_AUTH_TOKEN : {undefined, Str(Tok), Str(BearerPrefix \o Tok)},
     BASIC_USERNAME : Maybe(<<"u", "s", "r">>),
     BASIC_PASSWORD : Maybe(<<"p", "w", "d">>),
     OAUTH2_AUTHORIZATION_CODE_ACCESS_TOKEN : Maybe(<<"a", "c", "t">>),
     OAUTH2_CLIENT_CREDENTIALS_CLIENT_SECRET : Maybe(<<"s", "e", "c">>)]

BearerOnly ==
    [NoSecrets EXCEPT !.BEARER_AUTH_TOKEN = Str(Tok)]

ClientSecretOnly ==
    [NoSecrets EXCEPT !.OAUTH2_CLIENT_CREDENTIALS_CLIENT_SECRET = Str(<<"s", "e", "c">>)]

\* every spelling of the bearer token, alone and next to Basic credentials
BearerSecrets ==
    {[NoSecrets EXCEPT !.BEARER_AUTH_TOKEN = b,
                       !.BASIC_USERNAME = c[1],
                       !.BASIC_PASSWORD = c[2]] :
        b \in {undefined, Str(<<>>)} \cup BearerTokens,
        c \in {<<undefined, undefined>>, <<Str(<<"u", "s", "r">>), Str(<<"p", "w", "d">>)>>}}

OAuthEnvironment ==
    [NoEnvironment EXCEPT !.OAUTH2_CLIENT_CREDENTIALS_TOKEN_URL = Str(TokenUrl),
                          !.OAUTH2_CLIENT_CREDENTIALS_CLIENT_ID = Str(<<"c", "i", "d">>)]

\* the settings of the OAuth2 client-credentials environment
AllOAuthEnvironments ==
    {[NoEnvironment EXCEPT !.OAUTH2_CLIENT_CREDENTIALS_TOKEN_URL = u,
                           !.OAUTH2_CLIENT_CREDENTIALS_CLIENT_ID = c,
                           !.OAUTH2_CLIENT_CREDENTIALS_SCOPE = o[1],
                           !.OAUTH2_CLIENT_CREDENTIALS_AUDIENCE = o[2],
                           !.OAUTH2_CLIENT_CREDENTIALS_AUTH_STYLE = y] :
        u \in Maybe(TokenUrl), c \in Maybe(<<"c", "i", "d">>),
        o \in {<<undefined, undefined>>, <<Str(<<"r", " ", "w">>), undefined>>,
               <<Str(<<"r", " ", "w">>), Str(<<"a", "u", "d">>)>>},
        y \in {undefined, Str(StrInParams), Str(<<"I", "n", "H", "e", "a", "d", "e", "r">>)}}

UserIds ==
    {undefined, Str(<<>>), Num(7), Str(<<"u", "1">>), Str(<<"a", "/", "b", "?", "c">>),
     Str(<<".", ".", "/", "x", " ", "y">>)}

ParamAddresses ==
    {undefined, Str(<<>>), Str(AddrParam), Str(AddrParam \o <<"/">>),
     Str(AddrParam \o <<"/", "/">>)}

EnvAddresses ==
    {undefined, Str(AddrEnv), Str(AddrEnv \o <<"/">>)}

BackoffSettings ==
    {undefined, Str(<<"5">>), Str(<<"0">>), Str(<<"a", "b", "c">>), Str(<<"2", "5", "m", "s">>)}

Context(secrets, environment, env) ==
    [secrets |-> secrets, environment |-> environment, env |-> env]

Job(r, userId, address, ctx, reason) ==
    [recovery |-> r,
     params |-> [userId |-> userId, address |-> address, error |-> undefined],
     context |-> ctx,
     haltReason |-> reason]

U1 ==
    Str(<<"u", "1">>)

\* the job runs the model starts from: each family varies one part of the input
\* over all its values and keeps the rest at a plain setting
AuthJobs ==
    {Job("self", U1, Str(AddrParam), Context(s, OAuthEnvironment, NoEnv), undefined) :
        s \in AllSecrets \cup BearerSecrets}

OAuthJobs ==
    {Job("self", U1, Str(AddrParam), Context(ClientSecretOnly, e, NoEnv), undefined) :
        e \in AllOAuthEnvironments}

AddressJobs ==
    {Job("self", U1, a, Context(BearerOnly, [NoEnvironment EXCEPT !.ADDRESS = e], NoEnv),
         undefined) :
        a \in ParamAddresses, e \in EnvAddresses}

UserJobs ==
    {Job(r, u, Str(AddrParam), Context(s, OAuthEnvironment, NoEnv), undefined) :
        r \in {"self", "framework"}, u \in UserIds, s \in {BearerOnly, NoSecrets}}
    \cup
    {Job("framework", U1, a, Context(s, OAuthEnvironment, NoEnv), undefined) :
        a \in {undefined, Str(AddrParam)}, s \in BearerSecrets \cup {ClientSecretOnly}}

BackoffJobs ==
    {Job("self", U1, Str(AddrParam),
         Context(BearerOnly,
                 [NoEnvironment EXCEPT !.RATE_LIMIT_BACKOFF_MS = b[1],
                                       !.SERVICE_ERROR_BACKOFF_MS = b[2]],
                 [RATE_LIMIT_BACKOFF_MS |-> b[3], SERVICE_ERROR_BACKOFF_MS |-> b[4]]),
         undefined) :
        b \in {<<undefined, undefined, x, x>> : x \in BackoffSettings}
              \cup {<<undefined, undefined, Str(<<"5">>), Str(<<"7">>)>>}
              \cup {<<x, x, undefined, undefined>> : x \in BackoffSettings}}

HaltJobs ==
    {Job(j[1], j[2], Str(AddrParam), Context(BearerOnly, NoEnvironment, NoEnv), Str(j[3])) :
        j \in {<<"self", U1, ReasonTimeout>>, <<"self", undefined, ReasonCancelled>>,
               <<"framework", undefined, ReasonCancelled>>}}
    \cup
    {Job("self", U1, Str(AddrParam), Context(ClientSecretOnly, OAuthEnvironment, NoEnv),
         Str(ReasonTimeout))}

Jobs ==
    AuthJobs \cup OAuthJobs \cup AddressJobs \cup UserJobs \cup BackoffJobs \cup HaltJobs

(* ------------------------- the state machine --------------------------- *)
Init ==
    /\ \E j \in Jobs :
        /\ recovery = j.recovery
        /\ params = j.params
        /\ context = j.context
        /\ haltReason = j.haltReason
    /\ pc = "ready"
    /\ baseUrl = undefined
    /\ authHeader = undefined
    /\ calls = <<>>
    /\ answers = <<>>
    /\ timers = <<>>
    /\ now = 0
    /\ outcome = None
    /\ halted = None
    /\ logs = <<>>

\* the framework calls invoke(params, context)
invoke ==
    /\ pc = "ready"
    /\ Becomes(invokeCall(Frame))
    /\ UNCHANGED <<job, now, halted>>

\* the token endpoint answers the token request of invoke
invokeToken ==
    /\ pc = "invoke_token"
    /\ \E response \in TokenResponses :
        LET header == getAuthorizationHeaderResume(response)
        IN  Becomes(IF header.k = "throw" THEN Ends(Answered(response), "invoke", header)
                    ELSE invokeSend(Answered(response), header.v, now))
    /\ UNCHANGED <<job, now, halted>>

\* the server answers the DELETE of invoke
invokeResponse ==
    /\ pc = "invoke_delete"
    /\ \E response \in RevokeResponses, d \in Latency :
        /\ now' = now + d
        /\ Becomes(invokeSettle(Answered(response), response, now'))
    /\ UNCHANGED <<job, halted>>

\* invoke has failed and the framework calls error({...params, error}, context)
error ==
    /\ pc = "invoked"
    /\ outcome.k = "throw"
    /\ params' = [params EXCEPT !.error = outcome.e]
    /\ Becomes(errorCall([Frame EXCEPT !.baseUrl = undefined, !.authHeader = undefined],
                         params'))
    /\ UNCHANGED <<recovery, context, haltReason, now, halted>>

\* the token endpoint answers the token request of error
errorToken ==
    /\ pc = "error_token"
    /\ \E response \in TokenResponses :
        LET header == getAuthorizationHeaderResume(response)
        IN  Becomes(IF header.k = "throw" THEN Ends(Answered(response), "error", header)
                    ELSE errorRecover(Answered(response), params, header.v, now))
    /\ UNCHANGED <<job, now, halted>>

\* errorTimer with a slip: a halt cancels the pending retry
errorTimerUnlessHalted ==
    /\ halted = None
    /\ pc \in {"error_wait_rate_limit", "error_wait_service"}
    /\ now' = now + TimerDelay(timers[Len(timers)].ms)
    /\ Becomes(errorRetry(Frame, params, now',
                          IF pc = "error_wait_rate_limit" THEN "error_retry_rate_limit"
                          ELSE "error_retry_service"))
    /\ UNCHANGED <<job, halted>>

\* the backoff timer of error fires and the retry is sent
errorTimer ==
    /\ pc \in {"error_wait_rate_limit", "error_wait_service"}
    /\ now' = now + TimerDelay(timers[Len(timers)].ms)
    /\ Becomes(errorRetry(Frame, params, now',
                          IF pc = "error_wait_rate_limit" THEN "error_retry_rate_limit"
                          ELSE "error_retry_service"))
    /\ UNCHANGED <<job, halted>>

\* the server answers the retry of error
errorResponse ==
    /\ pc \in {"error_retry_rate_limit", "error_retry_service"}
    /\ \E response \in RetryResponses, d \in Latency :
        /\ now' = now + d
        /\ Becomes(errorSettle(Answered(response), params,
                               IF pc = "error_retry_rate_limit" THEN "rate_limit"
                               ELSE "service",
                               response, now'))
    /\ UNCHANGED <<job, halted>>

\* the framework calls halt({reason, userId}, context): at any moment of the run
halt ==
    /\ Truthy(haltReason)
    /\ halted = None
    /\ logs' = Append(logs, haltLog([userId |-> params.userId, reason |-> haltReason]))
    /\ halted' = Return(haltResult([userId |-> params.userId, reason |-> haltReason], now))
    /\ UNCHANGED <<job, pc, baseUrl, authHeader, calls, answers, timers, now, outcome>>

Next ==
    \/ invoke
    \/ invokeToken
    \/ invokeResponse
    \/ error
    \/ errorToken
    \/ errorTimer
    \/ errorResponse
    \/ halt

Spec ==
    Init /\ [][Next]_vars

\* every network call is answered and every backoff timer fires
Fairness ==
    /\ WF_vars(invokeToken)
    /\ WF_vars(invokeResponse)
    /\ WF_vars(errorToken)
    /\ WF_vars(errorTimer)
    /\ WF_vars(errorResponse)

\* the jobs the framework halts
HaltInit ==
    Init /\ Truthy(haltReason)

\* the runs of the jobs the framework halts at some moment
HaltSpec ==
    HaltInit /\ [][Next]_vars /\ Fairness

\* the failures of an earlier invoke the framework hands to error as params.error
PriorFailures ==
    {invokeError(Response(status, <<>>, TextBody(TextHtml, TRUE))) : status \in {404, 429, 503}}
    \cup {Error(MsgFetchFailed)}

\* the params and context the framework gives to a call of error
DirectJobs ==
    {Job("self", u, a, Context(c[1], c[2], NoEnv), undefined) :
        u \in {undefined, Str(<<>>), U1},
        a \in {undefined, Str(AddrParam)},
        c \in {<<BearerOnly, NoEnvironment>>, <<ClientSecretOnly, OAuthEnvironment>>,
               <<NoSecrets, NoEnvironment>>}}

\* the framework is about to call error({...params, error}, context) of the bundled
\* script for a job that failed before: error takes whatever params it is given
DirectInit ==
    /\ \E j \in DirectJobs :
        /\ recovery = j.recovery
        /\ params = j.params
        /\ context = j.context
        /\ haltReason = j.haltReason
    /\ pc = "invoked"
    /\ outcome \in {Throw(e) : e \in PriorFailures}
    /\ baseUrl = undefined
    /\ authHeader = undefined
    /\ calls = <<>>
    /\ answers = <<>>
    /\ timers = <<>>
    /\ now = 0
    /\ halted = None
    /\ logs = <<>>

DirectNext ==
    \/ error
    \/ errorToken
    \/ errorTimer
    \/ errorResponse

\* the runs of the error handler called by itself
DirectSpec ==
    DirectInit /\ [][DirectNext]_vars

(* ------------------------- properties ---------------------------------- *)
\* the indices of the revocation requests (DELETE) made by handler `by`
Deletes(by) ==
    {i \in 1..Len(calls) : calls[i].by = by /\ calls[i].request.method = StrDELETE}

\* the indices of the token requests (POST) made by handler `by`
Posts(by) ==
    {i \in 1..Len(calls) : calls[i].by = by /\ calls[i].request.method = StrPOST}

\* invoke has ended and the last thing it did was to receive the answer to its DELETE
InvokeAnswered ==
    /\ pc = "invoked"
    /\ Deletes("invoke") # {}
    /\ Len(answers) = Len(calls)

LastAnswer ==
    answers[Len(answers)]

LastCall ==
    calls[Len(calls)]

\* a userId the validation of invoke accepts: a non-empty string
ValidUserId ==
    params.userId.t = "string" /\ params.userId.v # <<>>

\* a secret or setting that is present: defined and not empty
Present(x) ==
    x.t = "string" /\ x.v # <<>>

\* C1: whenever the DELETE of invoke is answered with an ok status (204 or another
\* status of the 2xx range), invoke returns {userId, sessionsRevoked: true, address:
\* the resolved base URL, revokedAt: the time of completion} and raises no error.
C1_OkResponseYieldsSuccess ==
    (InvokeAnswered /\ LastAnswer.kind = "response" /\ LastAnswer.status \in 200..299)
    => /\ outcome.k = "return"
       /\ outcome.v.userId = params.userId
       /\ outcome.v.sessionsRevoked = TRUE
       /\ outcome.v.address = baseUrl.v
       /\ startsWith(LastCall.request.url, outcome.v.address \o PathUsers)
       /\ outcome.v.revokedAt = [t |-> "timestamp", ms |-> now]
       /\ outcome.v.recoveryMethod = undefined

C1_Witness ==
    /\ InvokeAnswered
    /\ ValidUserId
    /\ LastAnswer.kind = "response"
    /\ LastAnswer.status = 200
    /\ outcome.k = "return"
    /\ outcome.v.sessionsRevoked

\* C2: whenever the DELETE of invoke is answered with a non-ok status, invoke fails
\* with an error whose statusCode is the status of the answer, whatever the body
\* (JSON with or without errorSummary, JSON null, or a body whose parse throws).
C2_StatusCodeOfFailure ==
    (InvokeAnswered /\ LastAnswer.kind = "response" /\ LastAnswer.status \notin 200..299)
    => /\ outcome.k = "throw"
       /\ outcome.e.statusCode = [t |-> "number", n |-> LastAnswer.status]

C2_Witness ==
    /\ InvokeAnswered
    /\ LastAnswer.kind = "response"
    /\ LastAnswer.status = 500
    /\ LastAnswer.body.json = "throws"
    /\ outcome.k = "throw"
    /\ outcome.e.statusCode = Num(500)

\* the answer carries a JSON object with a non-empty errorSummary
HasErrorSummary(response) ==
    /\ response.body.json = "value"
    /\ ~response.body.isNull
    /\ Present(response.body.errorSummary)

\* C3: on a non-ok answer the message of the error of invoke contains the body's
\* errorSummary when the JSON body has a non-empty one, and is exactly
\* 'Failed to revoke sessions: HTTP <status>' in every other case.
C3_MessageOfFailure ==
    (InvokeAnswered /\ LastAnswer.kind = "response" /\ LastAnswer.status \notin 200..299)
    => /\ outcome.k = "throw"
       /\ IF HasErrorSummary(LastAnswer)
          THEN includes(outcome.e.message, LastAnswer.body.errorSummary.v)
          ELSE outcome.e.message = MsgFailedHttp \o IntToStr(LastAnswer.status)

C3_Witness ==
    /\ InvokeAnswered
    /\ LastAnswer.kind = "response"
    /\ LastAnswer.status = 404
    /\ HasErrorSummary(LastAnswer)
    /\ outcome.k = "throw"
    /\ includes(outcome.e.message, SummaryNotFound)


\* the handler that is running, or that ran last
Handler ==
    IF params.error = undefined THEN "invoke" ELSE "error"

\* 'Basic ' followed by the base64 text of usr:pwd
BasicUsrPwd ==
    <<"B","a","s","i","c"," ","d","X","N","y","O","n","B","3","Z","A","=","=">>

\* C4: the credential resolver takes the first method, in the order Bearer token,
\* Basic, OAuth2 authorization-code token, OAuth2 client credentials, whose secrets
\* are present: the header a handler has resolved carries the credential of that
\* method whatever other secrets are present, a token request has been made by the
\* handler only when no earlier method is present, and the resolver fails for want
\* of a method only when none of the first three is present.
C4_FirstMethodWins ==
    LET s == context.secrets
        h == authHeader.v
    IN  /\ authHeader # undefined =>
             IF Present(s.BEARER_AUTH_TOKEN)
             THEN endsWith(h, Tok) /\ ~startsWith(h, BasicPrefix) /\ Posts(Handler) = {}
             ELSE IF Present(s.BASIC_USERNAME) /\ Present(s.BASIC_PASSWORD)
             THEN h = BasicUsrPwd /\ Posts(Handler) = {}
             ELSE IF Present(s.OAUTH2_AUTHORIZATION_CODE_ACCESS_TOKEN)
             THEN endsWith(h, <<" ", "a", "c", "t">>) /\ Posts(Handler) = {}
             ELSE /\ Present(s.OAUTH2_CLIENT_CREDENTIALS_CLIENT_SECRET)
                  /\ Cardinality(Posts(Handler)) = 1
                  /\ endsWith(h, <<" ", "a", "t", "1">>) \/ endsWith(h, <<" ", "a", "t", "2">>)
        /\ (Posts("invoke") # {} \/ Posts("error") # {}) =>
             /\ ~Present(s.BEARER_AUTH_TOKEN)
             /\ ~(Present(s.BASIC_USERNAME) /\ Present(s.BASIC_PASSWORD))
             /\ ~Present(s.OAUTH2_AUTHORIZATION_CODE_ACCESS_TOKEN)
        /\ (pc = "invoked" /\ outcome.k = "throw" /\ calls = <<>>
            /\ outcome.e.message \in {MsgNoAuth, MsgOAuthEnv, MsgOAuthConfig}) =>
             /\ ~Present(s.BEARER_AUTH_TOKEN)
             /\ ~(Present(s.BASIC_USERNAME) /\ Present(s.BASIC_PASSWORD))
             /\ ~Present(s.OAUTH2_AUTHORIZATION_CODE_ACCESS_TOKEN)

C4_Witness ==
    /\ pc = "invoke_delete"
    /\ ~Present(context.secrets.BEARER_AUTH_TOKEN)
    /\ Present(context.secrets.BASIC_USERNAME)
    /\ Present(context.secrets.BASIC_PASSWORD)
    /\ Present(context.secrets.OAUTH2_AUTHORIZATION_CODE_ACCESS_TOKEN)
    /\ Present(context.secrets.OAUTH2_CLIENT_CREDENTIALS_CLIENT_SECRET)
    /\ LastCall.request.headers.Authorization = Str(BasicUsrPwd)
    /\ Posts("invoke") = {}

\* no authentication secret is present
NoAuthSecrets ==
    /\ ~Present(context.secrets.BEARER_AUTH_TOKEN)
    /\ ~Present(context.secrets.BASIC_USERNAME)
    /\ ~Present(context.secrets.BASIC_PASSWORD)
    /\ ~Present(context.secrets.OAUTH2_AUTHORIZATION_CODE_ACCESS_TOKEN)
    /\ ~Present(context.secrets.OAUTH2_CLIENT_CREDENTIALS_CLIENT_SECRET)

\* an address is given, by the parameter or by the environment
AddressGiven ==
    Present(params.address) \/ Present(context.environment.ADDRESS)

NoAuthConfigured ==
    <<"N","o"," ","a","u","t","h","e","n","t","i","c","a","t","i","o","n"," ","c","o","n","f",
    "i","g","u","r","e","d">>

\* C5: with no authentication secret at all no call of fetch is ever made, invoke
\* fails, and, its userId and address being accepted, it fails with the error
\* 'No authentication configured...'.
C5_NoSecretsNoCall ==
    NoAuthSecrets =>
        /\ calls = <<>>
        /\ pc = "invoked" =>
            /\ outcome.k = "throw"
            /\ ((recovery = "framework" \/ ValidUserId) /\ AddressGiven)
                => startsWith(outcome.e.message, NoAuthConfigured)

C5_Witness ==
    /\ NoAuthSecrets
    /\ ValidUserId
    /\ AddressGiven
    /\ pc = "invoked"
    /\ outcome.k = "throw"
    /\ startsWith(outcome.e.message, NoAuthConfigured)
    /\ calls = <<>>

\* C6: invoke called with a userId that is not a non-empty string fails with the
\* validation error, before it resolves the address or the credentials and before
\* any network call.
C6_InvalidUserIdRejectedFirst ==
    (pc = "invoked" /\ ~ValidUserId)
    => /\ outcome = Throw(Error(MsgInvalidUserId))
       /\ baseUrl = undefined
       /\ authHeader = undefined
       /\ calls = <<>>


\* the address the job names, the parameter before the environment
GivenAddress ==
    IF Present(params.address) THEN params.address.v ELSE context.environment.ADDRESS.v

NoUrlSpecified ==
    <<"N","o"," ","U","R","L"," ","s","p","e","c","i","f","i","e","d">>

\* C7: the base URL a handler has resolved is the address parameter whenever that is
\* given and the ADDRESS of the environment only when it is not (less one trailing
\* slash); when neither is given no network call is ever made and invoke, its userId
\* being accepted, fails with 'No URL specified...'.
C7_ParameterBeforeEnvironment ==
    /\ baseUrl # undefined =>
        /\ AddressGiven
        /\ baseUrl.v = GivenAddress \/ baseUrl.v \o <<"/">> = GivenAddress
    /\ ~AddressGiven =>
        /\ calls = <<>>
        /\ (pc = "invoked" /\ (recovery = "framework" \/ ValidUserId)) =>
            /\ outcome.k = "throw"
            /\ startsWith(outcome.e.message, NoUrlSpecified)

C7_Witness ==
    /\ pc = "invoke_delete"
    /\ Present(params.address)
    /\ Present(context.environment.ADDRESS)
    /\ baseUrl = Str(AddrParam)
    /\ startsWith(LastCall.request.url, AddrParam \o PathUsers)

HexValue(c) ==
    (CHOOSE i \in 1..Len(HexDigits) : HexDigits[i] = c) - 1

\* the text a percent-encoded path segment stands for
RECURSIVE PercentDecode(_)
PercentDecode(s) ==
    IF s = <<>> THEN <<>>
    ELSE IF Head(s) = "%"
    THEN <<Ascii[16 * HexValue(s[2]) + HexValue(s[3]) - 31]>> \o PercentDecode(SubSeq(s, 4, Len(s)))
    ELSE <<Head(s)>> \o PercentDecode(Tail(s))

\* the base URL of the job: its address less one trailing slash
JobBase ==
    IF endsWith(GivenAddress, <<"/">>)
    THEN SubSeq(GivenAddress, 1, Len(GivenAddress) - 1)
    ELSE GivenAddress

\* the calls of fetch that are not the token request
Revocations ==
    {i \in 1..Len(calls) : calls[i].request.url # TokenUrl}

\* C8: every revocation request, of invoke and of the retry of error, is a DELETE
\* without body to <base URL>/api/v1/users/<segment>/sessions, where the segment is
\* the percent-encoded userId and holds no '/', '?' or '#', and carries exactly the
\* headers Authorization, Accept: application/json and Content-Type: application/json.
C8_RevocationRequest ==
    \A i \in Revocations :
        LET r    == calls[i].request
            path == SubSeq(r.url, Len(JobBase) + 1, Len(r.url))
            seg  == SubSeq(path, Len(PathUsers) + 1, Len(path) - Len(PathSessions))
        IN  /\ r.method = StrDELETE
            /\ r.body = undefined
            /\ startsWith(r.url, JobBase)
            /\ startsWith(path, PathUsers)
            /\ endsWith(path, PathSessions)
            /\ Len(path) >= Len(PathUsers) + Len(PathSessions)
            /\ \A k \in 1..Len(seg) : seg[k] \notin {"/", "?", "#", " "}
            /\ PercentDecode(seg) = TemplateStr(params.userId)
            /\ DOMAIN r.headers = {"Authorization", "Accept", "ContentType"}
            /\ r.headers.Authorization.t = "string"
            /\ r.headers.Accept = Str(AppJson)
            /\ r.headers.ContentType = Str(AppJson)

C8_Witness ==
    /\ pc = "error_retry_rate_limit"
    /\ params.userId = Str(<<"a", "/", "b", "?", "c">>)
    /\ Cardinality(Revocations) = 2
    /\ LastCall.by = "error"
    /\ LastCall.request.url =
         AddrParam \o PathUsers \o <<"a","%","2","F","b","%","3","F","c">> \o PathSessions

\* the prior failure is of the rate-limit class
RateLimited ==
    \/ params.error.statusCode = [t |-> "number", n |-> 429]
    \/ includes(params.error.message, <<"4", "2", "9">>)
    \/ includes(params.error.message, <<"r","a","t","e"," ","l","i","m","i","t">>)

\* the first answer to a retry of the error handler
FirstRetryAnswer ==
    answers[CHOOSE i \in Deletes("error") : \A j \in Deletes("error") : i <= j]

\* C9: when the attempt of invoke has failed with status 429, or with a message that
\* contains '429' or 'rate limit', and the retry of the error handler is answered
\* with an ok status, the handler returns the success result with recoveryMethod
\* 'rate_limit_retry', after exactly 2 revocation requests in all, 1 of them its own.
C9_RateLimitRetry ==
    (/\ recovery = "self"
     /\ pc = "done"
     /\ Deletes("invoke") # {}
     /\ RateLimited
     /\ Deletes("error") # {}
     /\ FirstRetryAnswer.kind = "response"
     /\ FirstRetryAnswer.status \in 200..299)
    => /\ outcome.k = "return"
       /\ outcome.v.sessionsRevoked = TRUE
       /\ outcome.v.userId = params.userId
       /\ outcome.v.recoveryMethod = [t |-> "string", v |-> <<"r","a","t","e","_","l","i","m","i","t","_","r","e","t","r","y">>]
       /\ Cardinality(Deletes("error")) = 1
       /\ Cardinality(Deletes("invoke") \cup Deletes("error")) = 2

C9_Witness ==
    /\ recovery = "self"
    /\ pc = "done"
    /\ params.error.statusCode = Num(429)
    /\ Cardinality(Deletes("invoke")) = 1
    /\ Cardinality(Deletes("error")) = 1
    /\ LastAnswer.kind = "response"
    /\ LastAnswer.status = 204
    /\ outcome.k = "return"
    /\ outcome.v.recoveryMethod = Str(RateLimitRetry)

\* C10: when the prior failure has status 502, 503 or 504 and a retry of the error
\* handler is answered with an ok status, the handler returns the success result
\* with recoveryMethod 'service_retry', never 'rate_limit_retry'.
C10_ServiceRetry ==
    (/\ recovery = "self"
     /\ pc = "done"
     /\ params.error.statusCode \in {Num(502), Num(503), Num(504)}
     /\ Deletes("error") # {}
     /\ LastAnswer.kind = "response"
     /\ LastAnswer.status \in 200..299)
    => /\ outcome.k = "return"
       /\ outcome.v.recoveryMethod = Str(ServiceRetry)


\* the calls of fetch made by the error handler
ErrorCalls ==
    {i \in 1..Len(calls) : calls[i].by = "error"}

\* the prior failure is of the service-unavailable class
ServiceUnavailable ==
    params.error.statusCode \in
        {[t |-> "number", n |-> 502], [t |-> "number", n |-> 503], [t |-> "number", n |-> 504]}

\* 'Unrecoverable error revoking sessions for user <userId>: <original message>'
UnrecoverableMessage ==
    <<"U","n","r","e","c","o","v","e","r","a","b","l","e"," ","e","r","r","o","r"," ",
      "r","e","v","o","k","i","n","g"," ","s","e","s","s","i","o","n","s"," ","f","o","r"," ",
      "u","s","e","r"," ">>
    \o TemplateStr(params.userId) \o <<":", " ">> \o params.error.message

\* C11: when the prior failure carries a status code and is neither of the rate-limit
\* nor of the service-unavailable class, the error handler fails with 'Unrecoverable
\* error revoking sessions for user <userId>: <original message>' and has made no
\* network call and no backoff wait, for every authentication method.
C11_UnrecoverableImmediately ==
    (/\ recovery = "self"
     /\ pc = "done"
     /\ params.error.statusCode.t = "number"
     /\ ~RateLimited
     /\ ~ServiceUnavailable)
    => /\ outcome.k = "throw"
       /\ outcome.e.message = UnrecoverableMessage
       /\ ErrorCalls = {}
       /\ timers = <<>>

\* C12: one call of the error handler makes at most one backoff wait and at most one
\* revocation DELETE, for every prior status code and message.
C12_AtMostOneRetry ==
    recovery = "self" =>
        /\ Len(timers) <= 1
        /\ Cardinality(Deletes("error")) <= 1

\* C13: when the retry of the error handler is answered with a non-ok status, the
\* handler does not retry again and fails with 'Unrecoverable error revoking sessions
\* for user <userId>: <original message>', the message being the prior failure's.
C13_FailedRetryIsTerminal ==
    (/\ recovery = "self"
     /\ pc = "done"
     /\ Deletes("error") # {}
     /\ FirstRetryAnswer.kind = "response"
     /\ FirstRetryAnswer.status \notin 200..299)
    => /\ Cardinality(Deletes("error")) = 1
       /\ outcome.k = "throw"
       /\ outcome.e.message = UnrecoverableMessage

\* C14: every error with which the self-contained error handler fails is
\* 'Unrecoverable error revoking sessions for user <userId>: <original message>'.
C14_EveryFailureIsRecoveryError ==
    (recovery = "self" /\ pc = "done" /\ outcome.k = "throw")
    => outcome.e.message = UnrecoverableMessage

\* C15: when the prior failure is not an error of the revocation call (invoke failed
\* before it sent its DELETE: validation, configuration or token exchange), the error
\* handler makes no backoff wait and no revocation DELETE.
C15_OnlyHttpErrorRetried ==
    (recovery = "self" /\ params.error # undefined /\ Deletes("invoke") = {})
    => /\ timers = <<>>
       /\ Deletes("error") = {}


\* the default backoff of a retry class, in milliseconds
DefaultBackoff(class) ==
    IF class = "rate_limit" THEN [t |-> "number", n |-> 30000] ELSE [t |-> "number", n |-> 10000]

\* the backoff setting of a retry class in a bundle of the execution context
BackoffSetting(bundle, class) ==
    IF class = "rate_limit" THEN bundle.RATE_LIMIT_BACKOFF_MS
    ELSE bundle.SERVICE_ERROR_BACKOFF_MS

\* C16: the wait before a retry is 30000 ms (rate limit) resp. 10000 ms (service
\* error) when no backoff is configured, and is the value of RATE_LIMIT_BACKOFF_MS
\* resp. SERVICE_ERROR_BACKOFF_MS when that is set in context.environment, the bundle
\* that also holds ADDRESS and the OAuth2 settings.
C16_BackoffFromEnvironment ==
    \A i \in 1..Len(timers) :
        LET class   == timers[i].class
            setting == BackoffSetting(context.environment, class)
        IN  /\ (setting = undefined /\ BackoffSetting(context.env, class) = undefined)
                => timers[i].ms = DefaultBackoff(class)
            /\ setting = [t |-> "string", v |-> <<"5">>]
                => timers[i].ms = [t |-> "number", n |-> 5]

\* a backoff setting that is missing or does not parse as an integer
MissingOrInvalid(setting) ==
    setting \in {undefined, [t |-> "string", v |-> <<"a", "b", "c">>]}

\* C17: the wait before a retry is always a whole number of milliseconds, and is the
\* default of its class whenever the configured backoff is missing or invalid.
C17_InvalidBackoffFallsBack ==
    \A i \in 1..Len(timers) :
        LET class == timers[i].class
        IN  /\ timers[i].ms.t = "number"
            /\ (/\ MissingOrInvalid(BackoffSetting(context.env, class))
                /\ MissingOrInvalid(BackoffSetting(context.environment, class)))
                => timers[i].ms = DefaultBackoff(class)


\* C18: in the variant that delegates recovery to the framework the error handler
\* re-throws the error it was given, with its statusCode (the status of the answer
\* invoke received), and makes no network call and no backoff wait.
C18_FrameworkRethrows ==
    (recovery = "framework" /\ pc = "done")
    => /\ outcome.k = "throw"
       /\ outcome.e = params.error
       /\ (Deletes("invoke") # {} /\ LastAnswer.kind = "response")
            => outcome.e.statusCode = [t |-> "number", n |-> LastAnswer.status]
       /\ ErrorCalls = {}
       /\ Len(answers) = Cardinality(Deletes("invoke") \cup Posts("invoke"))
       /\ timers = <<>>

C18_Witness ==
    /\ recovery = "framework"
    /\ pc = "done"
    /\ Len(answers) = 1
    /\ LastAnswer.kind = "response"
    /\ LastAnswer.status \in {429, 503}
    /\ outcome.k = "throw"
    /\ outcome.e.statusCode \in {Num(429), Num(503)}
    /\ Len(calls) = 1
    /\ timers = <<>>

\* C19: halt always succeeds with {userId: the given userId, or 'unknown' when it is
\* missing, reason: the given reason, haltedAt: the time of the call,
\* cleanupCompleted: true}; the call makes no network call, starts no timer and
\* changes nothing of the run of invoke and error.
C19_HaltAcknowledges ==
    [][(halted = None /\ halted' # None)
       => /\ halted'.k = "return"
          /\ halted'.v.userId =
                IF params.userId \in {undefined, [t |-> "string", v |-> <<>>]}
                THEN [t |-> "string", v |-> <<"u","n","k","n","o","w","n">>]
                ELSE params.userId
          /\ halted'.v.reason = haltReason
          /\ halted'.v.haltedAt = [t |-> "timestamp", ms |-> now]
          /\ halted'.v.cleanupCompleted = TRUE
          /\ DOMAIN halted'.v = {"userId", "reason", "haltedAt", "cleanupCompleted"}
          /\ UNCHANGED <<recovery, params, context, haltReason, pc, baseUrl, authHeader,
                         calls, answers, timers, now, outcome>>]_vars

C19_Witness ==
    /\ halted # None
    /\ params.userId = undefined
    /\ halted.v.userId = Str(StrUnknown)
    /\ halted.v.reason = Str(ReasonCancelled)
    /\ halted.v.cleanupCompleted
    /\ calls # <<>>


\* a handler is suspended in a network call or in a backoff wait
Suspended ==
    pc \in {"invoke_token", "invoke_delete", "error_token", "error_wait_rate_limit",
            "error_wait_service", "error_retry_rate_limit", "error_retry_service"}

\* C20: a halt that is acknowledged while a handler is suspended in a backoff wait or
\* in a network call does not abort it: after the acknowledgment the pending retry
\* DELETE is still sent once the backoff is over, and the handler still ends with
\* its own result or error.
C20_HaltDoesNotAbort ==
    /\ (halted # None /\ pc \in {"error_wait_rate_limit", "error_wait_service"})
         ~> (pc \in {"error_retry_rate_limit", "error_retry_service"}
             /\ LastCall.by = "error" /\ LastCall.request.method = StrDELETE)
    /\ (halted # None /\ Suspended)
         ~> (pc \in {"invoked", "done"} /\ outcome.k \in {"return", "throw"})

C20_Witness ==
    /\ halted # None
    /\ pc = "done"
    /\ Deletes("error") # {}
    /\ halted.v.haltedAt.ms < LastCall.at
    /\ outcome.k = "return"
    /\ outcome.v.recoveryMethod = Str(RateLimitRetry)


\* the credential resolver reaches its fourth method, OAuth2 client credentials
ClientCredentialsMode ==
    /\ ~Present(context.secrets.BEARER_AUTH_TOKEN)
    /\ ~(Present(context.secrets.BASIC_USERNAME) /\ Present(context.secrets.BASIC_PASSWORD))
    /\ ~Present(context.secrets.OAUTH2_AUTHORIZATION_CODE_ACCESS_TOKEN)
    /\ Present(context.secrets.OAUTH2_CLIENT_CREDENTIALS_CLIENT_SECRET)

\* the backoff waits of the error handler that are over
ElapsedWaits ==
    Len(timers) - (IF pc \in {"error_wait_rate_limit", "error_wait_service"} THEN 1 ELSE 0)

\* C21 as claimed: an invoke call that reaches the Invoker, and an error call that
\* retries, perform exactly one network call each, for each authentication method.
C21_OneCallPerAttempt ==
    /\ (pc = "invoked" /\ Deletes("invoke") # {}) => Len(calls) = 1
    /\ (pc = "done" /\ Deletes("error") # {}) => Cardinality(ErrorCalls) = 1

\* C21 as amended: an invoke call that reaches the Invoker sends exactly one
\* revocation DELETE, and the error handler sends exactly one DELETE after each of
\* its backoff waits; a handler makes one more network call, the token request that
\* precedes the DELETE, exactly when the method is OAuth2 client credentials.
C21_OneDeletePerAttempt ==
    /\ (Handler = "invoke" /\ authHeader # undefined) =>
          /\ Cardinality(Deletes("invoke")) = 1
          /\ Cardinality(Posts("invoke")) = IF ClientCredentialsMode THEN 1 ELSE 0
          /\ Len(calls) = IF ClientCredentialsMode THEN 2 ELSE 1
    /\ (Handler = "invoke" /\ authHeader = undefined) => Deletes("invoke") = {}
    /\ Handler = "error" =>
          /\ Cardinality(Deletes("invoke")) <= 1
          /\ Cardinality(Deletes("error")) = ElapsedWaits
          /\ Cardinality(Posts("error")) <= 1
          /\ Posts("error") # {} => ClientCredentialsMode
          /\ (Deletes("error") # {} /\ ClientCredentialsMode)
                => Cardinality(Posts("error")) = 1

C21_Witness ==
    /\ pc = "done"
    /\ ClientCredentialsMode
    /\ Cardinality(Posts("invoke")) = 1
    /\ Cardinality(Deletes("invoke")) = 1
    /\ Cardinality(Posts("error")) = 1
    /\ Cardinality(Deletes("error")) = 1
    /\ Len(timers) = 1
    /\ outcome.k = "return"


\* C22: in Bearer-token mode the Authorization header of every revocation request is
\* 'SSWS <token>', whether BEARER_AUTH_TOKEN is the bare token or carries a 'Bearer '
\* or an 'SSWS ' prefix: it starts with exactly one 'SSWS ' and never with 'Bearer '
\* or 'SSWS SSWS '.
C22_BearerModeIsSSWS ==
    \A i \in Revocations :
        Present(context.secrets.BEARER_AUTH_TOKEN) =>
            LET h == calls[i].request.headers.Authorization.v
            IN  /\ h = <<"S","S","W","S"," ","t","o","k">>
                /\ startsWith(h, <<"S","S","W","S"," ">>)
                /\ ~startsWith(h, <<"S","S","W","S"," ","S","S","W","S"," ">>)
                /\ ~startsWith(h, <<"B","e","a","r","e","r"," ">>)

C22_Witness ==
    /\ pc = "invoke_delete"
    /\ context.secrets.BEARER_AUTH_TOKEN = Str(SSWSPrefix \o Tok)
    /\ LastCall.request.headers.Authorization = Str(SSWSPrefix \o Tok)


\* C23: in Basic and OAuth2 modes the Authorization header of every revocation
\* request is the one the credential resolver returned, 'Basic <base64>' resp.
\* 'Bearer <token>': it is not rewritten to the SSWS scheme.
C23_OnlyBearerModeRewritten ==
    \A i \in Revocations :
        ~Present(context.secrets.BEARER_AUTH_TOKEN) =>
            LET h == calls[i].request.headers.Authorization.v
            IN  /\ ~startsWith(h, <<"S","S","W","S"," ">>)
                /\ IF Present(context.secrets.BASIC_USERNAME)
                      /\ Present(context.secrets.BASIC_PASSWORD)
                   THEN h = BasicUsrPwd
                   ELSE startsWith(h, <<"B","e","a","r","e","r"," ">>)


TokenRequestFailed ==
    <<"O","A","u","t","h","2"," ","t","o","k","e","n"," ","r","e","q","u","e","s","t"," ","f",
    "a","i","l","e","d",":"," ">>
NoAccessToken ==
    <<"N","o"," ","a","c","c","e","s","s","_","t","o","k","e","n"," ","i","n"," ","O","A","u",
    "t","h","2"," ","r","e","s","p","o","n","s","e">>
OAuthSettingsMissing ==
    <<"O","A","u","t","h","2"," ","C","l","i","e","n","t"," ","C","r","e","d","e","n","t","i",
    "a","l","s"," ","f","l","o","w"," ","r","e","q","u","i","r","e","s"," ","T","O","K","E","N",
    "_","U","R","L"," ","a","n","d"," ","C","L","I","E","N","T","_","I","D"," ","i","n"," ","e",
    "n","v">>

\* the token endpoint answered, and not with an ok status and an access_token
TokenFailed(a) ==
    /\ a.kind = "response"
    /\ \/ a.status \notin 200..299
       \/ a.body.json = "throws"
       \/ a.body.isNull
       \/ ~Present(a.body.access_token)

\* the error with which the handler ended
FailureOf(by) ==
    IF by = "invoke" /\ Handler = "error" THEN params.error ELSE outcome.e

\* the handler has ended
Ended(by) ==
    IF by = "invoke" THEN pc = "invoked" \/ Handler = "error" ELSE pc = "done"

\* C24: in OAuth2 client-credentials mode a missing token URL or client ID makes the
\* resolution fail before any network call; a token answer that is not ok, or is ok
\* without access_token, makes the handler fail with the error of the token
\* exchange; and the handler whose resolution failed sends no revocation DELETE.
C24_TokenExchangeFailures ==
    /\ (/\ ClientCredentialsMode
        /\ \/ ~Present(context.environment.OAUTH2_CLIENT_CREDENTIALS_TOKEN_URL)
           \/ ~Present(context.environment.OAUTH2_CLIENT_CREDENTIALS_CLIENT_ID))
       => /\ calls = <<>>
          /\ (pc = "invoked" /\ AddressGiven /\ (recovery = "framework" \/ ValidUserId))
                => outcome.k = "throw" /\ outcome.e.message = OAuthSettingsMissing
    /\ \A by \in {"invoke", "error"} : \A i \in Posts(by) :
          (i <= Len(answers) /\ TokenFailed(answers[i]))
          => /\ Deletes(by) = {}
             /\ Ended(by)
             /\ FailureOf(by).statusCode = undefined
             /\ (answers[i].status \notin 200..299 /\ answers[i].body.json = "value")
                   => startsWith(FailureOf(by).message,
                                 TokenRequestFailed \o IntToStr(answers[i].status))
             /\ (/\ answers[i].status \in 200..299
                 /\ answers[i].body.json = "value"
                 /\ ~answers[i].body.isNull)
                   => FailureOf(by).message = NoAccessToken

C24_Witness ==
    /\ pc = "invoked"
    /\ ClientCredentialsMode
    /\ Len(calls) = 1
    /\ Len(answers) = 1
    /\ answers[1].kind = "response"
    /\ answers[1].status = 200
    /\ answers[1].body.json = "value"
    /\ ~answers[1].body.isNull
    /\ outcome.k = "throw"
    /\ outcome.e.message = NoAccessToken


\* the credential of an Authorization header: what follows the scheme
AfterScheme(h) ==
    IF \E i \in 1..Len(h) : h[i] = " "
    THEN SubSeq(h, 1 + CHOOSE i \in 1..Len(h) : h[i] = " " /\ \A j \in 1..(i - 1) : h[j] # " ",
                Len(h))
    ELSE h

\* the Authorization headers built so far: the one of the handler and those sent
BuiltHeaders ==
    {h.v : h \in {x \in {authHeader} : x.t = "string"}}
    \cup {calls[i].request.headers.Authorization.v :
            i \in {k \in 1..Len(calls) : calls[k].request.headers.Authorization.t = "string"}}

\* the access tokens the token endpoint has issued
IssuedTokens ==
    {answers[i].body.access_token.v :
        i \in {k \in 1..Len(answers) : /\ calls[k].request.method = StrPOST
                                       /\ answers[k].kind = "response"
                                       /\ Present(answers[k].body.access_token)}}

\* the credential values of the run: the secrets that are set, the access tokens
\* issued, the Authorization headers built and the credential each header carries
CredentialValues ==
    ({context.secrets[k].v : k \in {n \in DOMAIN context.secrets : Present(context.secrets[n])}}
     \cup IssuedTokens \cup BuiltHeaders \cup {AfterScheme(h) : h \in BuiltHeaders})
    \ {<<>>}

\* the messages of the errors raised so far
RaisedMessages ==
    {o.e.message : o \in {x \in {outcome} : x.k = "throw"}}
    \cup {e.message : e \in {params.error} \ {undefined}}

OwnTokens(by) ==
    {k \in Posts(by) : /\ k <= Len(answers)
                       /\ answers[k].kind = "response"
                       /\ Ok(answers[k])
                       /\ answers[k].body.json = "value"
                       /\ Present(answers[k].body.access_token)}

\* C26: the error call carries nothing over from the invoke call before it: each
\* DELETE it sends is the request built from its own params, the context and, with
\* OAuth2 client credentials, the access token of its own one token exchange, which
\* it makes anew; no token or header of the earlier call is used again.
C26_NothingCarriedBetweenCalls ==
    \A i \in Deletes("error") :
        LET resolved == getAuthorizationHeader(context)
            base     == getBaseUrl(params, context)
        IN  /\ base.k = "return"
            /\ IF resolved.k = "await"
               THEN /\ Cardinality(Posts("error")) = 1
                    /\ \E k \in OwnTokens("error") :
                         /\ k < i
                         /\ calls[k].request = resolved.request
                         /\ calls[i].request =
                              revokeUserSessions(params.userId, base.v,
                                  sswsHeader(BearerPrefix \o answers[k].body.access_token.v))
               ELSE /\ resolved.k = "return"
                    /\ Posts("error") = {}
                    /\ calls[i].request =
                         revokeUserSessions(params.userId, base.v, sswsHeader(resolved.v))

C26_Witness ==
    /\ pc = "done"
    /\ Deletes("error") # {}
    /\ \E k \in OwnTokens("invoke"), e \in OwnTokens("error") :
         answers[k].body.access_token # answers[e].body.access_token
    /\ \E i \in Deletes("invoke"), e \in Deletes("error") :
         calls[i].request.headers.Authorization # calls[e].request.headers.Authorization


\* C27 (as claimed): the resolved base URL never ends with a slash and no request
\* URL contains '//api/v1', also for an address that ends in several slashes.
C27_NoTrailingSlash ==
    /\ baseUrl.t = "string" => ~endsWith(baseUrl.v, <<"/">>)
    /\ \A i \in Revocations :
         ~includes(calls[i].request.url, <<"/", "/", "a", "p", "i", "/", "v", "1">>)


\* the k-th revocation request of the error handler
RetryCall(k) ==
    calls[CHOOSE i \in Deletes("error") :
            Cardinality({j \in Deletes("error") : j <= i}) = k]

\* C28: each retry DELETE of the error handler follows a backoff wait of its own and
\* is issued no earlier than the start of that wait plus its duration; the wait that
\* precedes a rate_limit_retry is of the rate-limit class and the one that precedes a
\* service_retry of the service class, and the wait of a class lasts for the backoff
\* of that class: 30000 ms resp. 10000 ms when none is set, and the value of
\* RATE_LIMIT_BACKOFF_MS resp. SERVICE_ERROR_BACKOFF_MS of the bundle the handler reads.
C28_RetryAfterMatchingBackoff ==
    /\ Cardinality(Deletes("error")) = ElapsedWaits
    /\ \A k \in 1..ElapsedWaits :
         /\ timers[k].ms.t = "number" => RetryCall(k).at >= timers[k].at + timers[k].ms.n
         /\ RetryCall(k).at > timers[k].at
    /\ \A k \in 1..Len(timers) :
         LET class == timers[k].class
         IN  /\ (/\ BackoffSetting(context.env, class) = undefined
                 /\ BackoffSetting(context.environment, class) = undefined)
                 => timers[k].ms = DefaultBackoff(class)
             /\ context.env = [RATE_LIMIT_BACKOFF_MS |-> Str(<<"5">>),
                               SERVICE_ERROR_BACKOFF_MS |-> Str(<<"7">>)]
                 => timers[k].ms = Num(IF class = "rate_limit" THEN 5 ELSE 7)
    /\ pc \in {"error_wait_rate_limit", "error_retry_rate_limit"}
         => timers[Len(timers)].class = "rate_limit"
    /\ pc \in {"error_wait_service", "error_retry_service"}
         => timers[Len(timers)].class = "service"
    /\ (pc = "done" /\ outcome.k = "return" /\ Handler = "error")
         => timers[Len(timers)].class =
              (IF outcome.v.recoveryMethod = Str(RateLimitRetry) THEN "rate_limit"
               ELSE "service")

C28_Witness ==
    /\ pc = "done"
    /\ outcome.k = "return"
    /\ outcome.v.recoveryMethod = Str(ServiceRetry)
    /\ Len(timers) = 2
    /\ timers[1].class = "rate_limit"
    /\ timers[1].ms = Num(5)
    /\ timers[2].class = "service"
    /\ timers[2].ms = Num(7)
    /\ RetryCall(1).at = timers[1].at + 5
    /\ RetryCall(2).at = timers[2].at + 7


BasicCidSec ==
    <<"B","a","s","i","c"," ","Y","2","l","k","O","n","N","l","Y","w","=","=">>

FormCidSec ==
    <<"&","c","l","i","e","n","t","_","i","d","=","c","i","d","&","c","l","i","e","n","t","_",
    "s","e","c","r","e","t","=","s","e","c">>

FullTokenForm ==
    <<"g","r","a","n","t","_","t","y","p","e","=","c","l","i","e","n","t","_","c","r","e","d",
    "e","n","t","i","a","l","s","&","s","c","o","p","e","=","r","+","w","&","a","u","d","i","e",
    "n","c","e","=","a","u","d","&","c","l","i","e","n","t","_","i","d","=","c","i","d","&","c",
    "l","i","e","n","t","_","s","e","c","r","e","t","=","s","e","c">>

StrClientId ==
    <<"c","l","i","e","n","t","_","i","d">>

StrClientSecret ==
    <<"c","l","i","e","n","t","_","s","e","c","r","e","t">>

\* C29: every token request carries the client credentials in one place only: with
\* authStyle 'InParams' as the form parameters client_id and client_secret and
\* without Authorization header, with any other authStyle (or none) as the header
\* 'Basic <base64(clientId:clientSecret)>' and without client_id or client_secret in
\* the body; the body starts with grant_type=client_credentials and has a scope
\* resp. audience parameter exactly when a scope resp. audience is configured.
C29_CredentialsInOnePlace ==
    \A i \in Posts("invoke") \cup Posts("error") :
        LET request == calls[i].request
            body    == request.body.v
            env     == context.environment
        IN  /\ startsWith(body, FormGrant)
            /\ IF env.OAUTH2_CLIENT_CREDENTIALS_AUTH_STYLE = Str(StrInParams)
               THEN /\ endsWith(body, FormCidSec)
                    /\ request.headers.Authorization = undefined
               ELSE /\ request.headers.Authorization = Str(BasicCidSec)
                    /\ ~includes(body, StrClientId)
                    /\ ~includes(body, StrClientSecret)
            /\ includes(body, FormScope) <=> Present(env.OAUTH2_CLIENT_CREDENTIALS_SCOPE)
            /\ includes(body, FormAudience) <=> Present(env.OAUTH2_CLIENT_CREDENTIALS_AUDIENCE)

C29_Witness ==
    /\ context.environment.OAUTH2_CLIENT_CREDENTIALS_AUTH_STYLE = Str(StrInParams)
    /\ Posts("invoke") # {}
    /\ \A i \in Posts("invoke") :
         /\ calls[i].request.body = Str(FullTokenForm)
         /\ calls[i].request.headers.Authorization = undefined


\* exactly one of the two Basic secrets is present
OneBasicSecret ==
    Present(context.secrets.BASIC_USERNAME) # Present(context.secrets.BASIC_PASSWORD)

\* C30: without bearer token, the Basic method is the one used exactly when both
\* BASIC_USERNAME and BASIC_PASSWORD are present, and its header is
\* 'Basic <base64(username:password)>'; with only one of the two present the
\* resolver goes on to the OAuth2 methods (the authorization-code token, else the
\* client-credentials exchange) and fails with 'No authentication configured' when
\* neither of them is configured.
C30_BasicNeedsBoth ==
    LET s       == context.secrets
        checked == (recovery = "framework" \/ ValidUserId) /\ AddressGiven
    IN  ~Present(s.BEARER_AUTH_TOKEN) =>
          /\ \A i \in Revocations :
               LET h == calls[i].request.headers.Authorization.v
               IN  IF Present(s.BASIC_USERNAME) /\ Present(s.BASIC_PASSWORD)
                   THEN h = BasicUsrPwd
                   ELSE ~startsWith(h, BasicPrefix)
          /\ (Present(s.BASIC_USERNAME) /\ Present(s.BASIC_PASSWORD))
                => /\ Posts("invoke") \cup Posts("error") = {}
                   /\ (checked /\ pc # "ready") => Deletes("invoke") # {}
          /\ (OneBasicSecret /\ checked /\ pc # "ready") =>
               IF Present(s.OAUTH2_AUTHORIZATION_CODE_ACCESS_TOKEN)
               THEN /\ Deletes("invoke") # {}
                    /\ Posts("invoke") = {}
                    /\ \A i \in Deletes("invoke") :
                         endsWith(calls[i].request.headers.Authorization.v,
                                  <<" ", "a", "c", "t">>)
               ELSE IF Present(s.OAUTH2_CLIENT_CREDENTIALS_CLIENT_SECRET)
               THEN Posts("invoke") # {} \/ FailureOf("invoke").message = OAuthSettingsMissing
               ELSE /\ calls = <<>>
                    /\ startsWith(FailureOf("invoke").message, NoAuthConfigured)

C30_Witness ==
    /\ ~Present(context.secrets.BEARER_AUTH_TOKEN)
    /\ Present(context.secrets.BASIC_USERNAME)
    /\ ~Present(context.secrets.BASIC_PASSWORD)
    /\ ~Present(context.secrets.OAUTH2_AUTHORIZATION_CODE_ACCESS_TOKEN)
    /\ Present(context.secrets.OAUTH2_CLIENT_CREDENTIALS_CLIENT_SECRET)
    /\ pc = "invoke_delete"
    /\ Cardinality(Posts("invoke")) = 1
    /\ ~startsWith(LastCall.request.headers.Authorization.v, BasicPrefix)


\* C31: a revocation DELETE is only ever sent for a userId that is a non-empty
\* string, by invoke and by the retry of the error handler alike.
C31_NoDeleteForInvalidUserId ==
    Revocations # {} => ValidUserId


\* C32: a call of the error handler of the bundled script resolves the base URL and
\* the credentials once and first: its one token request, if any, is sent and
\* answered before the first backoff wait starts, the header and the base URL are
\* set when a wait starts, and every retry DELETE carries that header and that base
\* URL; without URL, or without credentials, the call ends with the configuration
\* error, without wait or network call, whatever the status code of the prior failure.
C32_ErrorResolvesFirst ==
    (recovery = "self" /\ Handler = "error") =>
        /\ Cardinality(Posts("error")) <= 1
        /\ pc = "error_token" => timers = <<>> /\ Deletes("error") = {}
        /\ timers # <<>> =>
             /\ baseUrl.t = "string"
             /\ authHeader.t = "string"
             /\ \A k \in Posts("error") :
                  /\ k <= Len(answers)
                  /\ calls[k].at <= timers[1].at
                  /\ \A i \in Deletes("error") : k < i
        /\ \A i \in Deletes("error") :
             /\ timers # <<>>
             /\ calls[i].request.headers.Authorization = authHeader
             /\ startsWith(calls[i].request.url, baseUrl.v \o PathUsers)
        /\ (pc = "done" /\ ~AddressGiven) =>
             /\ outcome.k = "throw"
             /\ startsWith(outcome.e.message, NoUrlSpecified)
             /\ timers = <<>>
             /\ ErrorCalls = {}
        /\ (pc = "done" /\ AddressGiven /\ NoAuthSecrets) =>
             /\ outcome.k = "throw"
             /\ startsWith(outcome.e.message, NoAuthConfigured)
             /\ timers = <<>>
             /\ ErrorCalls = {}

C32_Witness ==
    /\ pc = "done"
    /\ Handler = "error"
    /\ ~AddressGiven
    /\ params.error.statusCode = Num(404)
    /\ outcome.k = "throw"
    /\ startsWith(outcome.e.message, NoUrlSpecified)


\* C33: the 'Unrecoverable error' with which the error handler of the bundled script
\* ends has no statusCode, also when the prior failure has one and when the retry
\* was answered with a failure status; the prior failure, when invoke raised it for
\* a non-ok answer to its DELETE, has the status of that answer as statusCode.
C33_UnrecoverableHasNoStatusCode ==
    /\ (/\ recovery = "self"
        /\ pc = "done"
        /\ outcome.k = "throw"
        /\ startsWith(outcome.e.message, UnrecoverableMessage))
        => outcome.e.statusCode = undefined
    /\ (/\ Handler = "error"
        /\ Deletes("invoke") # {}
        /\ \A i \in Deletes("invoke") : answers[i].kind = "response")
        => \A i \in Deletes("invoke") : params.error.statusCode = Num(answers[i].status)

C33_Witness ==
    /\ recovery = "self"
    /\ pc = "done"
    /\ outcome.k = "throw"
    /\ startsWith(outcome.e.message, UnrecoverableMessage)
    /\ outcome.e.statusCode = undefined
    /\ params.error.statusCode = Num(503)
    /\ Deletes("error") # {}
    /\ LastAnswer.kind = "response"
    /\ LastAnswer.status = 401


\* C34: every call ends, given that every network call is answered and every timer
\* fires: a suspended invoke ends with a result or an error, and so does a suspended
\* error handler; halt ends at once with its result. A job makes at most one token
\* request and one DELETE in invoke and one token request, two waits and two DELETEs
\* in the error handler, which has no loop.
C34_EveryCallTerminates ==
    /\ [](/\ Cardinality(Posts("invoke")) <= 1
          /\ Cardinality(Deletes("invoke")) <= 1
          /\ Cardinality(Posts("error")) <= 1
          /\ Cardinality(Deletes("error")) <= 2
          /\ Len(timers) <= 2
          /\ Len(calls) = Cardinality(Posts("invoke") \cup Deletes("invoke")
                                      \cup Posts("error") \cup Deletes("error"))
          /\ halted # None => halted.k = "return")
    /\ (pc \in {"invoke_token", "invoke_delete"})
         ~> (pc = "invoked" /\ outcome.k \in {"return", "throw"})
    /\ (pc \in {"error_token", "error_wait_rate_limit", "error_wait_service",
                "error_retry_rate_limit", "error_retry_service"})
         ~> (pc = "done" /\ outcome.k \in {"return", "throw"})

C34_Witness ==
    /\ pc = "done"
    /\ outcome.k = "throw"
    /\ Cardinality(Posts("invoke")) = 1
    /\ Cardinality(Posts("error")) = 1
    /\ Cardinality(Deletes("error")) = 2
    /\ Len(timers) = 2
    /\ Len(calls) = 5
    /\ Len(answers) = 5
=============================================================================
